---------------------------- MODULE Spec2Model ----------------------------
(***************************************************************************)
(* A model of the transcript segmentation, clip-boundary and caption       *)
(* packing logic of src/ai_clipper.py (class AIVideoClipper).              *)
(*                                                                         *)
(* Times are integers counted in ticks of 0.1 s, so 0.2 s is 2 ticks,      *)
(* 0.8 s is 8 ticks and 1.5 s is 15 ticks.  A text is a sequence of        *)
(* one-character strings.  Segment indices keep Python's numbering: the    *)
(* first segment has index 0, segment i is transcript[i + 1].              *)
(***************************************************************************)
EXTENDS Integers, Sequences, FiniteSets, TLC

VARIABLES
    transcript,     \* self.transcript['segments']: the speech segments
    settings,       \* the tk variables read by the clipping logic
    ai_analysis,    \* self.ai_analysis: the candidate clips
    pc,             \* position of the running workflow or call
    arg,            \* the argument(s) of the call in progress
    result,         \* the value the last call returned
    calls           \* the completed calls, oldest first: [in, out]

vars == <<transcript, settings, ai_analysis, pc, arg, result, calls>>

(***************************************************************************)
(* Bounds of the model.                                                    *)
(***************************************************************************)
\* segment times are drawn from the grid 0, TimeStep, ..., MaxTick * TimeStep
TimeStep == 3
MaxTick == 5
\* longest segment list handed to process_subtitle_segments
MaxSegs == 3
\* longest segment list in the runs that call the packer repeatedly
MaxRepackSegs == 2
\* number of successive calls of the packer in those runs
MaxCalls == 3

Times == { TimeStep * k : k \in 0..MaxTick }

\* sequences over S of length 0..n
SeqsUpTo(S, n) == UNION { [1..k -> S] : k \in 0..n }

\* the text "aa...a" of n characters
Rep(c, n) == [k \in 1..n |-> c]

\* the number num / den, den > 0
Fraction(num, den) == [num |-> num, den |-> den]

\* the settings a spec leaves alone
DefaultSettings ==
    [smart_duration |-> TRUE, max_clips |-> 5, clip_duration |-> 60,
     min_clip_duration |-> 20, caption_animation |-> "none"]

(***************************************************************************)
(* process_subtitle_segments (SubtitleSegmentPacker, overlap/gap step)     *)
(***************************************************************************)
min_gap == 2
min_duration == 8

\* sorted(): stable insertion of x behind every element whose start is <= x's
RECURSIVE InsertByStart(_, _)
InsertByStart(s, x) ==
    IF s = <<>> THEN <<x>>
    ELSE IF s[Len(s)].start <= x.start THEN Append(s, x)
    ELSE Append(InsertByStart(SubSeq(s, 1, Len(s) - 1), x), s[Len(s)])

RECURSIVE SortedByStart(_)
SortedByStart(s) ==
    IF s = <<>> THEN <<>>
    ELSE InsertByStart(SortedByStart(SubSeq(s, 1, Len(s) - 1)), s[Len(s)])

\* The packer counts time in 1/unit of a tick: unit is 1 for the segments
\* cut from the transcript, and the number of words for the cues that
\* generate_srt_fallback spreads over the clip.  The thresholds 0.2 s and
\* 0.8 s are then min_gap * unit and min_duration * unit.

\* "Ensure minimum duration": the end after the first adjustment
EnsureMinDuration(start_time, end_time, unit) ==
    IF (end_time - start_time) < min_duration * unit
    THEN start_time + min_duration * unit
    ELSE end_time

\* "Check overlap with previous subtitle": TRUE when the segment is skipped
SkipAfterPrev(processed, start_time, end_time, unit) ==
    /\ processed # <<>>
    /\ start_time < processed[Len(processed)].end + min_gap * unit
    /\ ~(processed[Len(processed)].end + min_gap * unit < end_time)

\* a plausible slip: the start is left where it was
KeepStart(processed, start_time, end_time, unit) == start_time

\* a plausible slip: the start is set behind the previous cue without
\* asking whether it is too close
StartSnappedToPrev(processed, start_time, end_time, unit) ==
    IF processed # <<>> /\ processed[Len(processed)].end + min_gap * unit < end_time
    THEN processed[Len(processed)].end + min_gap * unit
    ELSE start_time

\* the start after the check against the previous subtitle (not skipped)
StartAfterPrev(processed, start_time, end_time, unit) ==
    IF /\ processed # <<>>
       /\ start_time < processed[Len(processed)].end + min_gap * unit
       /\ processed[Len(processed)].end + min_gap * unit < end_time
    THEN processed[Len(processed)].end + min_gap * unit
    ELSE start_time

\* a plausible slip: the end is pulled in front of the next segment
\* without keeping the minimum duration
EndPulledToNext(segments, i, start_time, end_time, unit) ==
    IF i < Len(segments) /\ end_time > segments[i + 1].start - min_gap * unit
    THEN segments[i + 1].start - min_gap * unit
    ELSE end_time

\* "Check overlap with next subtitle": the end after the second adjustment
EndBeforeNext(segments, i, start_time, end_time, unit) ==
    IF i < Len(segments) /\ end_time > segments[i + 1].start - min_gap * unit
    THEN IF segments[i + 1].start - min_gap * unit
                > start_time + min_duration * unit
         THEN segments[i + 1].start - min_gap * unit
         ELSE start_time + min_duration * unit
    ELSE end_time

\* one pass of the for loop over the sorted segments, from position i on
RECURSIVE PackFrom(_, _, _, _)
PackFrom(segments, i, processed, unit) ==
    IF i > Len(segments) THEN processed
    ELSE LET seg == segments[i]
             end1 == EnsureMinDuration(seg.start, seg.end, unit)
         IN IF SkipAfterPrev(processed, seg.start, end1, unit)
            THEN PackFrom(segments, i + 1, processed, unit)
            ELSE LET start1 == StartAfterPrev(processed, seg.start, end1, unit)
                     end2 == EndBeforeNext(segments, i, start1, end1, unit)
                 IN PackFrom(segments, i + 1,
                        Append(processed,
                               [start |-> start1, end |-> end2,
                                text |-> seg.text]), unit)

\* a plausible slip: the list of cues is kept between calls
StaleProcessed == result

\* processed = []
FreshProcessed == <<>>

process_subtitle_segments(segments, unit) ==
    IF segments = <<>> THEN <<>>
    ELSE PackFrom(SortedByStart(segments), 1, FreshProcessed, unit)

\* a segment handed to the packer: start < end, text marks its position
PackSegs == { s \in [start : Times, end : Times] : s.start < s.end }

PackInputsOf(n) ==
    { [i \in DOMAIN ts |-> [start |-> ts[i].start, end |-> ts[i].end,
                            text |-> Rep("a", i)]] :
        ts \in SeqsUpTo(PackSegs, n) }

PackInputs == PackInputsOf(MaxSegs)

Reverse(s) == [i \in DOMAIN s |-> s[Len(s) + 1 - i]]

\* the segment lists tried after a first call on list x
Variants(x) == { x, Reverse(x), IF x = <<>> THEN x ELSE Tail(x) }

\* the variables the packer never touches
PackFrame == UNCHANGED <<transcript, settings, ai_analysis>>

CallProcessSubtitleSegments ==
    /\ pc = "call"
    /\ result' = process_subtitle_segments(arg, 1)
    /\ calls' = Append(calls, [in |-> arg, out |-> result'])
    /\ pc' = "done"
    /\ UNCHANGED arg
    /\ PackFrame

\* the caller packs another list, derived from the first one
Repack ==
    /\ pc = "done"
    /\ Len(calls) < MaxCalls
    /\ arg' \in Variants(calls[1].in)
    /\ pc' = "call"
    /\ UNCHANGED <<result, calls>>
    /\ PackFrame

InitIdle ==
    /\ transcript = <<>>
    /\ settings = DefaultSettings
    /\ ai_analysis = <<>>
    /\ result = <<>>
    /\ calls = <<>>

InitPack == InitIdle /\ pc = "call" /\ arg \in PackInputs
NextPack == CallProcessSubtitleSegments
SpecPack == InitPack /\ [][NextPack]_vars

InitRepack == InitIdle /\ pc = "call" /\ arg \in PackInputsOf(MaxRepackSegs)
NextRepack == CallProcessSubtitleSegments \/ Repack
SpecRepack == InitRepack /\ [][NextRepack]_vars

PackDone == pc = "done" /\ calls # <<>>

\* C1: consecutive cues returned by process_subtitle_segments are at least
\* min_gap apart: cue[i].end + min_gap <= cue[i+1].start.
C1_GapBetweenCues ==
    PackDone =>
        \A i \in 1..(Len(result) - 1) :
            result[i].end + min_gap <= result[i + 1].start

\* C1 witness: a returned pair whose second start was pushed forward to
\* exactly prev.end + min_gap.
C1_Witness ==
    /\ PackDone
    /\ \E i \in 1..(Len(result) - 1) :
          /\ result[i].end + min_gap = result[i + 1].start
          /\ \A j \in DOMAIN arg : arg[j].start # result[i + 1].start

\* C2: every cue returned by process_subtitle_segments lasts at least
\* min_duration (0.8 s), whatever was done to its start or end.
C2_MinDurationOfCues ==
    PackDone =>
        \A i \in DOMAIN result :
            result[i].end - result[i].start >= min_duration

Whitespace == {" ", "\t", "\n"}

UpperCase == <<"A", "B", "C", "D", "E", "F", "G", "H", "I", "J", "K", "L", "M",
               "N", "O", "P", "Q", "R", "S", "T", "U", "V", "W", "X", "Y", "Z">>
LowerCase == <<"a", "b", "c", "d", "e", "f", "g", "h", "i", "j", "k", "l", "m",
               "n", "o", "p", "q", "r", "s", "t", "u", "v", "w", "x", "y", "z">>

LowerChar(c) ==
    IF \E k \in DOMAIN UpperCase : UpperCase[k] = c
    THEN LowerCase[CHOOSE k \in DOMAIN UpperCase : UpperCase[k] = c]
    ELSE c

Lower(text) == [k \in DOMAIN text |-> LowerChar(text[k])]

RECURSIVE LStrip(_)
LStrip(text) ==
    IF text # <<>> /\ text[1] \in Whitespace THEN LStrip(Tail(text)) ELSE text

RECURSIVE RStrip(_)
RStrip(text) ==
    IF text # <<>> /\ text[Len(text)] \in Whitespace
    THEN RStrip(SubSeq(text, 1, Len(text) - 1))
    ELSE text

Strip(text) == RStrip(LStrip(text))

StartsWith(text, prefix) ==
    Len(prefix) <= Len(text) /\ SubSeq(text, 1, Len(prefix)) = prefix

EndsWith(text, suffix) ==
    /\ Len(suffix) <= Len(text)
    /\ SubSeq(text, Len(text) - Len(suffix) + 1, Len(text)) = suffix

(***************************************************************************)
(* BoundarySearcher: find_segment_index, find_better_start_boundary,       *)
(* find_better_end_boundary and the two is_good_* predicates               *)
(***************************************************************************)
\* the value standing for Python's None where an index is expected
NotFound == -1

long_pause == 15

good_starters ==
    << <<"j","a","d","i">>, <<"n","a","h">>, <<"o","k","e">>,
       <<"b","a","i","k">>, <<"s","e","k","a","r","a","n","g">>,
       <<"m","a","r","i">>, <<"a","y","o">>,
       <<"p","e","r","t","a","m","a">>, <<"k","e","d","u","a">>,
       <<"s","e","l","a","n","j","u","t","n","y","a">>,
       <<"b","e","r","i","k","u","t","n","y","a">>,
       <<"j","a","d","i"," ","b","e","g","i","n","i">>,
       <<"n","a","h"," ","b","e","g","i","n","i">>,
       <<"o","k","e"," ","b","e","g","i","n","i">>,
       <<"p","e","r","t","a","m","a","-","t","a","m","a">>,
       <<"y","a","n","g"," ","p","e","r","t","a","m","a">>,
       <<"y","a","n","g"," ","k","e","d","u","a">> >>

good_enders ==
    << <<"j","a","d","i">>, <<"n","a","h">>, <<"o","k","e">>,
       <<"b","a","i","k">>, <<"b","e","g","i","t","u">>,
       <<"d","e","m","i","k","i","a","n">>, <<"i","t","u","l","a","h">>,
       <<"b","e","g","i","t","u","l","a","h">>,
       <<"d","e","m","i","k","i","a","n","l","a","h">>,
       <<"s","e","k","i","a","n">>,
       <<"t","e","r","i","m","a"," ","k","a","s","i","h">>,
       <<"s","a","m","p","a","i"," ","j","u","m","p","a">>,
       <<"s","e","l","a","m","a","t"," ","t","i","n","g","g","a","l">>,
       <<"j","a","d","i"," ","b","e","g","i","t","u","l","a","h">>,
       <<"n","a","h"," ","b","e","g","i","t","u","l","a","h">>,
       <<"o","k","e"," ","b","e","g","i","t","u","l","a","h">> >>

\* text.lower().startswith(starter.lower()) for some starter of the list
HasStarter(text) ==
    \E k \in DOMAIN good_starters :
        StartsWith(Lower(Strip(text)), Lower(good_starters[k]))

\* text.lower().endswith(ender.lower()) for some ender of the list
HasEnder(text) ==
    \E k \in DOMAIN good_enders :
        EndsWith(Lower(Strip(text)), Lower(good_enders[k]))

\* segment i of the transcript, i counted from 0
Segment(i) == transcript[i + 1]

\* a plausible slip: strict comparisons
ContainsStrictly(segment, time_seconds) ==
    segment.start < time_seconds /\ time_seconds < segment.end

\* segment['start'] <= time_seconds <= segment['end']
Contains(segment, time_seconds) ==
    segment.start <= time_seconds /\ time_seconds <= segment.end

RECURSIVE FindFrom(_, _)
FindFrom(i, time_seconds) ==
    IF i >= Len(transcript) THEN NotFound
    ELSE IF Contains(Segment(i), time_seconds) THEN i
    ELSE FindFrom(i + 1, time_seconds)

find_segment_index(time_seconds) == FindFrom(0, time_seconds)

is_good_starting_boundary(segment, segment_idx) ==
    \/ HasStarter(segment.text)
    \/ /\ segment_idx > 0
       /\ segment.start - Segment(segment_idx - 1).end > long_pause

is_good_ending_boundary(segment, segment_idx) ==
    \/ HasEnder(segment.text)
    \/ /\ segment_idx < Len(transcript) - 1
       /\ Segment(segment_idx + 1).start - segment.end > long_pause

Max2(a, b) == IF a >= b THEN a ELSE b
Min2(a, b) == IF a <= b THEN a ELSE b

\* for i in range(segment_idx, max(0, segment_idx - 3), -1), from i on
RECURSIVE ScanBack(_, _, _)
ScanBack(i, stop, original_time) ==
    IF i <= stop THEN original_time
    ELSE IF is_good_starting_boundary(Segment(i), i) THEN Segment(i).start
    ELSE ScanBack(i - 1, stop, original_time)

\* a plausible slip: without a signal the boundary snaps to the segment
SnapToSegmentStart(segment_idx, original_time) ==
    IF segment_idx <= 0 THEN original_time
    ELSE ScanBack(segment_idx, Max2(0, segment_idx - 3),
                  Segment(segment_idx).start)

find_better_start_boundary(segment_idx, original_time) ==
    IF segment_idx <= 0 THEN original_time
    ELSE ScanBack(segment_idx, Max2(0, segment_idx - 3), original_time)

\* for i in range(segment_idx, min(len(segments), segment_idx + 3)), from i on
RECURSIVE ScanForward(_, _, _)
ScanForward(i, stop, original_time) ==
    IF i >= stop THEN original_time
    ELSE IF is_good_ending_boundary(Segment(i), i) THEN Segment(i).end
    ELSE ScanForward(i + 1, stop, original_time)

find_better_end_boundary(segment_idx, original_time) ==
    IF segment_idx >= Len(transcript) - 1 THEN original_time
    ELSE ScanForward(segment_idx, Min2(Len(transcript), segment_idx + 3),
                     original_time)

(***************************************************************************)
(* Transcripts of the boundary specifications                              *)
(***************************************************************************)
\* segment times of these transcripts: 0, BoundaryStep, ...
BoundaryStep == 8
MaxBoundaryTick == 4
\* longest transcript
MaxTranscript == 3

BoundaryTimes == { BoundaryStep * k : k \in 0..MaxBoundaryTick }

\* times asked about: the grid, the points between and one past the end
QueryTimes ==
    { (BoundaryStep \div 2) * k : k \in 0..(2 * MaxBoundaryTick + 1) }

\* "Jadi x." opens with a start marker and closes a sentence
TextStarter == <<"J", "a", "d", "i", " ", "x", ".">>
\* " x oke " closes with an end marker once stripped
TextEnder == <<" ", "x", " ", "o", "k", "e", " ">>
TextPlain == <<"x", " ", "y">>

IsSortedByStart(s) ==
    \A i \in 1..(Len(s) - 1) : s[i].start <= s[i + 1].start

\* transcripts of up to n segments, start < end, ascending by start;
\* neighbours may overlap
TranscriptsOf(times, texts, n) ==
    { s \in SeqsUpTo({ g \in [start : times, end : times, text : texts] :
                          g.start < g.end }, n) :
        IsSortedByStart(s) }

(***************************************************************************)
(* find_segment_index on its own                                           *)
(***************************************************************************)
CallFindSegmentIndex ==
    /\ pc = "call"
    /\ result' = find_segment_index(arg)
    /\ pc' = "done"
    /\ UNCHANGED <<transcript, settings, ai_analysis, arg, calls>>

InitFind ==
    /\ transcript \in TranscriptsOf(BoundaryTimes, {TextPlain}, MaxTranscript)
    /\ settings = DefaultSettings
    /\ ai_analysis = <<>>
    /\ pc = "call"
    /\ arg \in QueryTimes
    /\ result = NotFound
    /\ calls = <<>>

NextFind == CallFindSegmentIndex
SpecFind == InitFind /\ [][NextFind]_vars

\* C3: find_segment_index(t) returns an index in range of a segment that
\* contains t, or None; None only when no segment contains t.
C3_FindSegmentIndex ==
    pc = "done" =>
        IF result = NotFound
        THEN \A k \in DOMAIN transcript :
                ~(transcript[k].start <= arg /\ arg <= transcript[k].end)
        ELSE /\ 0 <= result
             /\ result < Len(transcript)
             /\ transcript[result + 1].start <= arg
             /\ arg <= transcript[result + 1].end

\* C3 witness: t sits on the shared edge of two overlapping-at-a-point
\* segments and the index of the first of them comes back.
C3_Witness ==
    /\ pc = "done"
    /\ Len(transcript) = 3
    /\ result = 1
    /\ transcript[2].end = arg
    /\ transcript[3].start = arg

\* a time in the gap between two segments is asked about and not found
GapQueryReached ==
    /\ pc = "done"
    /\ result = NotFound
    /\ Len(transcript) >= 2
    /\ transcript[1].end < arg
    /\ arg < transcript[2].start



(***************************************************************************)
(* ClipBoundaryRefiner: validate_and_improve_boundaries                    *)
(***************************************************************************)
\* longest transcript and longest candidate list of these runs
MaxRefineSegs == 2
MaxCands == 3

\* a JSON value of a candidate: a number, a missing key, or a string
Num(t) == [kind |-> "num", val |-> t]
Missing == [kind |-> "missing", val |-> 0]
NonNumeric == [kind |-> "str", val |-> 0]

IsNum(v) == v.kind = "num"

\* what a call hands back: a value, or an exception that reached the caller
Returned(v) == [raised |-> FALSE, value |-> v]
Raised == [raised |-> TRUE, value |-> <<>>]

\* clip_info['start_time'] / clip_info['end_time']: KeyError on a missing key
RaisesKeyError(clip_info) ==
    clip_info.start_time.kind = "missing" \/ clip_info.end_time.kind = "missing"

\* segment['start'] <= time_seconds with a string: TypeError, as soon as
\* find_segment_index compares it with a first segment
RaisesTypeError(clip_info) ==
    /\ transcript # <<>>
    /\ (clip_info.start_time.kind = "str" \/ clip_info.end_time.kind = "str")

\* start_segment_idx is None or end_segment_idx is None
Unresolved(clip_info) ==
    \/ transcript = <<>>
    \/ find_segment_index(clip_info.start_time.val) = NotFound
    \/ find_segment_index(clip_info.end_time.val) = NotFound

\* improved_clip = clip_info.copy() and the five assignments
ImprovedClip(clip_info) ==
    [title |-> clip_info.title,
     start_time |->
         find_better_start_boundary(
             find_segment_index(clip_info.start_time.val),
             clip_info.start_time.val),
     end_time |->
         find_better_end_boundary(
             find_segment_index(clip_info.end_time.val),
             clip_info.end_time.val),
     original_start |-> clip_info.start_time.val,
     original_end |-> clip_info.end_time.val,
     boundary_improved |-> TRUE]

\* a plausible slip: improved clips are inserted in front
PrependClip(improved_analysis, clip) == <<clip>> \o improved_analysis

\* improved_analysis.append(improved_clip)
AppendClip(improved_analysis, clip) == Append(improved_analysis, clip)

\* the for loop over the candidates, from position i on
RECURSIVE ValidateFrom(_, _, _)
ValidateFrom(cands, i, improved_analysis) ==
    IF i > Len(cands) THEN Returned(improved_analysis)
    ELSE IF RaisesKeyError(cands[i]) \/ RaisesTypeError(cands[i]) THEN Raised
    ELSE IF Unresolved(cands[i])
         THEN ValidateFrom(cands, i + 1, improved_analysis)
    ELSE ValidateFrom(cands, i + 1,
                      AppendClip(improved_analysis, ImprovedClip(cands[i])))

validate_and_improve_boundaries(cands) ==
    IF cands = <<>> THEN Returned(cands)
    ELSE ValidateFrom(cands, 1, <<>>)

\* the candidate windows an AI answer may hold: times between the grid
\* points, a candidate without start_time, one whose end_time is a string
CandStartTimes ==
    { BoundaryStep * k + BoundaryStep \div 2 : k \in 0..1 }
CandEndTimes ==
    { BoundaryStep * k + BoundaryStep \div 2 : k \in 2..3 }

CandWindows ==
    { [start_time |-> Num(a), end_time |-> Num(b)] :
        a \in CandStartTimes, b \in CandEndTimes }
    \cup { [start_time |-> Missing, end_time |-> Num(BoundaryStep)],
           [start_time |-> Num(BoundaryStep \div 2), end_time |-> NonNumeric] }

\* candidate lists; the title of a candidate is its place in the answer
CandListsOf(n) ==
    { [i \in DOMAIN ws |-> [title |-> i, start_time |-> ws[i].start_time,
                            end_time |-> ws[i].end_time]] :
        ws \in SeqsUpTo(CandWindows, n) }

RefineTexts == {TextStarter, TextEnder, TextPlain}

CallValidateAndImproveBoundaries ==
    /\ pc = "call"
    /\ result' = validate_and_improve_boundaries(arg)
    /\ pc' = "done"
    /\ UNCHANGED <<transcript, settings, ai_analysis, arg, calls>>

InitRefine ==
    /\ transcript \in TranscriptsOf(BoundaryTimes, RefineTexts, MaxRefineSegs)
    /\ settings = DefaultSettings
    /\ ai_analysis = <<>>
    /\ pc = "call"
    /\ arg \in CandListsOf(MaxCands)
    /\ result = Returned(<<>>)
    /\ calls = <<>>

NextRefine == CallValidateAndImproveBoundaries
SpecRefine == InitRefine /\ [][NextRefine]_vars

\* some segment of the transcript contains the time
InSomeSegment(t) ==
    \E k \in DOMAIN transcript :
        transcript[k].start <= t /\ t <= transcript[k].end

\* both times of the candidate are numbers that lie in a segment
Resolves(c) ==
    /\ IsNum(c.start_time) /\ InSomeSegment(c.start_time.val)
    /\ IsNum(c.end_time) /\ InSomeSegment(c.end_time.val)

Malformed(c) == ~IsNum(c.start_time) \/ ~IsNum(c.end_time)

\* what identifies the candidate behind a returned clip
OriginOf(clip) ==
    [title |-> clip.title, start_time |-> Num(clip.original_start),
     end_time |-> Num(clip.original_end)]

Origins(clips) == [k \in DOMAIN clips |-> OriginOf(clips[k])]

\* C5: the list validate_and_improve_boundaries returns holds exactly the
\* candidates whose two times each lie in a segment, in their input order;
\* a candidate with a time in no segment is not in it.
C5_DropsUnresolvedKeepsOrder ==
    (pc = "done" /\ ~result.raised) =>
        Origins(result.value) = SelectSeq(arg, Resolves)

\* C5 witness: three candidates, the middle one dropped for a time in no
\* segment, the outer two returned in their order.
C5_Witness ==
    /\ pc = "done"
    /\ ~result.raised
    /\ Len(arg) = 3
    /\ Resolves(arg[1]) /\ ~Resolves(arg[2]) /\ Resolves(arg[3])
    /\ ~Malformed(arg[2])
    /\ arg[1].start_time # arg[3].start_time
    /\ Len(result.value) = 2
    /\ result.value[1].title = 1
    /\ result.value[2].title = 3

\* C7: a malformed candidate (missing or non-numeric start_time/end_time)
\* is dropped alone: the call returns, without an error, the other
\* candidates of the batch that resolve.
C7_MalformedCandidateIsLocal ==
    (pc = "done" /\ \E k \in DOMAIN arg : Malformed(arg[k])) =>
        /\ ~result.raised
        /\ Origins(result.value) = SelectSeq(arg, Resolves)



(***************************************************************************)
(* FallbackClipGenerator: generate_fallback_clips and its three tiers      *)
(*                                                                         *)
(* total_duration / max_clips need not be a whole number of ticks.  The    *)
(* start and end of a fallback clip are therefore counted in units of      *)
(* 1/max_clips tick: a segment time t is the clip time t * max_clips, and  *)
(* i * (total_duration / max_clips) is the clip time i * total_duration.   *)
(* Durations typed by the user are whole seconds: 10 ticks each.           *)
(***************************************************************************)
TicksPerSecond == 10
natural_break_pause == 10
smart_target_duration == 60

\* largest max_clips, largest duration (seconds) typed into the settings
MaxClips == 3
MaxClipSeconds == 2
\* longest transcript of the fallback runs
MaxFallbackSegs == 3

Abs(x) == IF x < 0 THEN 0 - x ELSE x

\* segments[-1]['end'] if segments else 0
TotalDuration(segments) ==
    IF segments = <<>> THEN 0 ELSE segments[Len(segments)].end

FallbackClip(start_time, end_time, emotion_score, boundary_confidence) ==
    [start_time |-> start_time, end_time |-> end_time,
     emotion_score |-> emotion_score,
     boundary_confidence |-> boundary_confidence,
     fallback_generated |-> TRUE]

\* for i in range(end_segment_idx, -1, -1), from i (counted from 0) down
RECURSIVE ClipStartFrom(_, _, _)
ClipStartFrom(segments, i, target_start) ==
    IF i < 0 THEN Max2(0, target_start)
    ELSE IF segments[i + 1].start <= target_start THEN segments[i + 1].start
    ELSE ClipStartFrom(segments, i - 1, target_start)

\* min_duration in ticks
find_clip_start(segments, end_segment_idx, min_dur) ==
    ClipStartFrom(segments, end_segment_idx,
                  segments[end_segment_idx + 1].end - min_dur)

\* the break points in transcript order: a gap > 1.0 s behind segment i
RECURSIVE BreakPointsFrom(_, _)
BreakPointsFrom(segments, i) ==
    IF i >= Len(segments) - 1 THEN <<>>
    ELSE LET gap == segments[i + 2].start - segments[i + 1].end
             rest == BreakPointsFrom(segments, i + 1)
         IN IF gap > natural_break_pause
            THEN <<[time |-> segments[i + 1].end, gap |-> gap,
                    segment_idx |-> i]>> \o rest
            ELSE rest

\* list.sort(key=gap, reverse=True): stable, equal gaps keep their order
RECURSIVE InsertByGap(_, _)
InsertByGap(s, x) ==
    IF s = <<>> THEN <<x>>
    ELSE IF s[Len(s)].gap >= x.gap THEN Append(s, x)
    ELSE Append(InsertByGap(SubSeq(s, 1, Len(s) - 1), x), s[Len(s)])

RECURSIVE SortedByGap(_)
SortedByGap(s) ==
    IF s = <<>> THEN <<>>
    ELSE InsertByGap(SortedByGap(SubSeq(s, 1, Len(s) - 1)), s[Len(s)])

\* a plausible slip: the slice is forgotten
Untruncated(s, n) == s

\* break_points[:max_clips]
FirstN(s, n) == SubSeq(s, 1, Min2(Len(s), n))

\* the loop over the chosen break points, from position k on
RECURSIVE NaturalClipsFrom(_, _, _, _, _)
NaturalClipsFrom(segments, points, k, max_clips, min_dur) ==
    IF k > Len(points) THEN <<>>
    ELSE LET start_time ==
                 find_clip_start(segments, points[k].segment_idx, min_dur)
             end_time == points[k].time
             rest == NaturalClipsFrom(segments, points, k + 1, max_clips,
                                      min_dur)
         IN IF end_time - start_time >= min_dur
            THEN <<FallbackClip(start_time * max_clips, end_time * max_clips,
                                7, "high")>> \o rest
            ELSE rest

find_natural_break_clips(segments, max_clips) ==
    NaturalClipsFrom(segments,
                     FirstN(SortedByGap(BreakPointsFrom(segments, 0)),
                            max_clips),
                     1, max_clips,
                     settings.min_clip_duration * TicksPerSecond)

\* a plausible slip: the distance keeps its sign
SignedDistance(segment, time, boundary_type, max_clips) ==
    IF boundary_type = "start"
    THEN segment.start * max_clips - time
    ELSE segment.end * max_clips - time

\* abs(s['start'] - time) or abs(s['end'] - time); the time is a clip time
BoundaryDistance(segment, time, boundary_type, max_clips) ==
    IF boundary_type = "start"
    THEN Abs(segment.start * max_clips - time)
    ELSE Abs(segment.end * max_clips - time)

\* min(segments, key=...): the first segment at the least distance
RECURSIVE NearestFrom(_, _, _, _, _, _)
NearestFrom(segments, k, best, time, boundary_type, max_clips) ==
    IF k > Len(segments) THEN best
    ELSE IF BoundaryDistance(segments[k], time, boundary_type, max_clips)
            < BoundaryDistance(segments[best], time, boundary_type, max_clips)
         THEN NearestFrom(segments, k + 1, k, time, boundary_type, max_clips)
    ELSE NearestFrom(segments, k + 1, best, time, boundary_type, max_clips)

\* the answer is the segment's own start or end, as a clip time
adjust_to_segment_boundary(segments, time, boundary_type, max_clips) ==
    IF segments = <<>> THEN time
    ELSE LET best_segment ==
                 segments[NearestFrom(segments, 1, 1, time, boundary_type,
                                      max_clips)]
         IN IF boundary_type = "start"
            THEN best_segment.start * max_clips
            ELSE best_segment.end * max_clips

\* for i in range(max_clips), from i on; target in ticks
RECURSIVE FixedClipsFrom(_, _, _, _)
FixedClipsFrom(segments, i, max_clips, target) ==
    IF i >= max_clips THEN <<>>
    ELSE LET total == TotalDuration(segments)
             start0 == i * total
             end0 == Min2(start0 + target * max_clips, total * max_clips)
             start_time ==
                 adjust_to_segment_boundary(segments, start0, "start",
                                            max_clips)
             end_time ==
                 adjust_to_segment_boundary(segments, end0, "end", max_clips)
             rest == FixedClipsFrom(segments, i + 1, max_clips, target)
         IN IF end_time > start_time
            THEN <<FallbackClip(start_time, end_time, 6, "medium")>> \o rest
            ELSE rest

\* max_clips > 0: with max_clips = 0 the division raises before the loop
find_fixed_duration_clips(segments, max_clips, target) ==
    IF TotalDuration(segments) = 0 THEN <<>>
    ELSE FixedClipsFrom(segments, 0, max_clips, target)

\* a plausible slip: the end of a window is not cut at total_duration
SimpleClipsUnclamped(total_duration, max_clips, target) ==
    [k \in 1..max_clips |->
        FallbackClip((k - 1) * total_duration,
                     (k - 1) * total_duration + target * max_clips,
                     5, "low")]

create_simple_time_clips(total_duration, max_clips, target) ==
    [k \in 1..max_clips |->
        FallbackClip((k - 1) * total_duration,
                     Min2((k - 1) * total_duration + target * max_clips,
                          total_duration * max_clips),
                     5, "low")]

\* int(self.clip_duration.get()) if not self.smart_duration.get() else 60
TargetDuration ==
    IF settings.smart_duration THEN smart_target_duration * TicksPerSecond
    ELSE settings.clip_duration * TicksPerSecond

\* a plausible slip: the mode is not consulted
NaturalBreaksInEveryMode ==
    find_natural_break_clips(transcript, settings.max_clips)

\* the clips of the first tier
FirstTierClips ==
    IF settings.smart_duration
    THEN find_natural_break_clips(transcript, settings.max_clips)
    ELSE find_fixed_duration_clips(transcript, settings.max_clips,
                                   TargetDuration)

\* interval = total_duration / max_clips raises ZeroDivisionError, which the
\* except clause of generate_fallback_clips turns into []
FallbackRaises ==
    ~settings.smart_duration /\ settings.max_clips = 0

generate_fallback_clips ==
    IF TotalDuration(transcript) = 0 THEN <<>>
    ELSE IF FallbackRaises THEN <<>>
    ELSE IF FirstTierClips # <<>> THEN FirstTierClips
    ELSE create_simple_time_clips(TotalDuration(transcript),
                                  settings.max_clips, TargetDuration)

FallbackSettings ==
    [smart_duration : BOOLEAN, max_clips : 0..MaxClips,
     clip_duration : 0..MaxClipSeconds,
     min_clip_duration : 0..MaxClipSeconds]

CallGenerateFallbackClips ==
    /\ pc = "call"
    /\ result' = generate_fallback_clips
    /\ pc' = "done"
    /\ UNCHANGED <<transcript, settings, ai_analysis, arg, calls>>

InitFallback ==
    /\ transcript \in
          TranscriptsOf(BoundaryTimes, {TextPlain}, MaxFallbackSegs)
    /\ settings \in FallbackSettings
    /\ ai_analysis = <<>>
    /\ pc = "call"
    /\ arg = <<>>
    /\ result = <<>>
    /\ calls = <<>>

NextFallback == CallGenerateFallbackClips
SpecFallback == InitFallback /\ [][NextFallback]_vars

\* the end of the last segment, in ticks
LastEnd == IF transcript = <<>> THEN 0 ELSE transcript[Len(transcript)].end

\* the target duration of the clips, in seconds
TargetSeconds ==
    IF settings.smart_duration THEN smart_target_duration
    ELSE settings.clip_duration

\* C4: with total duration > 0, max_clips >= 1 and a target duration > 0,
\* generate_fallback_clips returns between 1 and max_clips clips, each with
\* start < end; the clips of the naive time split are exactly max_clips
\* many and lie in [0, total duration].
C4_FallbackNeverEmpty ==
    (pc = "done" /\ LastEnd > 0 /\ settings.max_clips >= 1
        /\ TargetSeconds > 0) =>
        /\ result # <<>>
        /\ Len(result) <= settings.max_clips
        /\ \A k \in DOMAIN result : result[k].start_time < result[k].end_time
        /\ (result[1].boundary_confidence = "low") =>
              /\ Len(result) = settings.max_clips
              /\ \A k \in DOMAIN result :
                    /\ 0 <= result[k].start_time
                    /\ result[k].start_time < result[k].end_time
                    /\ result[k].end_time <= LastEnd * settings.max_clips

\* C4 witness: a transcript without a pause > 1.0 s, smart duration on: the
\* natural-break tier finds nothing and the naive split returns 3 clips.
C4_Witness ==
    /\ pc = "done"
    /\ settings.smart_duration
    /\ settings.max_clips = 3
    /\ Len(transcript) = 3
    /\ \A k \in 1..2 :
          transcript[k + 1].start - transcript[k].end <= natural_break_pause
    /\ Len(result) = 3
    /\ result[1].boundary_confidence = "low"
    /\ result[3].start_time > 0

\* each tier's clips are returned in some run
NaturalTierReached ==
    pc = "done" /\ result # <<>> /\ result[1].boundary_confidence = "high"
FixedTierReached ==
    pc = "done" /\ result # <<>> /\ result[1].boundary_confidence = "medium"



(***************************************************************************)
(* The clipping workflow: analyze_with_gemini, then generate_clips         *)
(*                                                                         *)
(* pc: "primary" (the selected model is asked), "secondary" (the           *)
(* alternative model is asked), "fallback" (generate_fallback_clips),      *)
(* "generate_clips", "done", "failed".  calls logs the steps taken, arg     *)
(* holds the JSON array of the last answer and result the message of the   *)
(* exception that ended the workflow.                                      *)
(***************************************************************************)
\* longest candidate list in a model's answer, longest transcript
MaxAnswerCands == 1
MaxWorkflowSegs == 2

AnswerLists == CandListsOf(MaxAnswerCands)

WorkflowSettings ==
    [smart_duration : BOOLEAN, max_clips : 0..MaxClips,
     clip_duration : {1}, min_clip_duration : {1}]

NoError == ""
NoAnalysisError == "Tidak ada data analisis AI"
AnalysisFailedError == "Gemini analysis gagal"

\* a plausible slip: a failed attempt goes straight to the fallback
\* strategy, the alternative model never asked
ModelFailsToFallback(at, then) ==
    /\ pc = at
    /\ pc' = "fallback"
    /\ calls' = Append(calls, at)
    /\ UNCHANGED <<transcript, settings, ai_analysis, arg, result>>

\* generate_content raises, the answer holds no JSON array, or json.loads
\* raises: the except clause of the attempt takes over
ModelFails(at, then) ==
    /\ pc = at
    /\ pc' = then
    /\ calls' = Append(calls, at)
    /\ UNCHANGED <<transcript, settings, ai_analysis, arg, result>>

\* the answer holds a JSON array: it is stored and, with smart duration
\* on, refined; an exception out of the refinement leaves the raw list in
\* self.ai_analysis and reaches the except clause of the attempt
ModelAnswers(at, then) ==
    /\ pc = at
    /\ \E answer \in AnswerLists :
          /\ LET refined == validate_and_improve_boundaries(answer)
             IN IF settings.smart_duration /\ refined.raised
                THEN ai_analysis' = answer /\ pc' = then
                ELSE /\ ai_analysis' =
                           IF settings.smart_duration THEN refined.value
                           ELSE answer
                     /\ pc' = "generate_clips"
          /\ arg' = answer
    /\ calls' = Append(calls, at)
    /\ UNCHANGED <<transcript, settings, result>>

PrimaryFails == ModelFails("primary", "secondary")
PrimaryAnswers == ModelAnswers("primary", "secondary")
SecondaryFails == ModelFails("secondary", "fallback")
SecondaryAnswers == ModelAnswers("secondary", "fallback")

\* both attempts failed: self.ai_analysis = self.generate_fallback_clips(),
\* and the batch-level exception when that list is empty
FallbackClipping ==
    /\ pc = "fallback"
    /\ ai_analysis' = generate_fallback_clips
    /\ IF generate_fallback_clips = <<>>
       THEN pc' = "failed" /\ result' = AnalysisFailedError
       ELSE pc' = "generate_clips" /\ UNCHANGED result
    /\ calls' = Append(calls, "fallback")
    /\ UNCHANGED <<transcript, settings, arg>>

\* generate_clips: raises on an empty analysis, else cuts the clips
GenerateClips ==
    /\ pc = "generate_clips"
    /\ IF ai_analysis = <<>>
       THEN pc' = "failed" /\ result' = NoAnalysisError
       ELSE pc' = "done" /\ UNCHANGED result
    /\ calls' = Append(calls, "generate_clips")
    /\ UNCHANGED <<transcript, settings, ai_analysis, arg>>

Init ==
    /\ transcript \in TranscriptsOf(BoundaryTimes, {TextPlain},
                                    MaxWorkflowSegs)
    /\ settings \in WorkflowSettings
    /\ ai_analysis = <<>>
    /\ pc = "primary"
    /\ arg = <<>>
    /\ result = NoError
    /\ calls = <<>>

Next ==
    \/ PrimaryFails
    \/ PrimaryAnswers
    \/ SecondaryFails
    \/ SecondaryAnswers
    \/ FallbackClipping
    \/ GenerateClips

Spec == Init /\ [][Next]_vars

\* C6: when no AI candidate is available or all were dropped by the
\* refinement, the fallback generator runs before clip generation:
\* generate_clips is never entered with an empty candidate list while the
\* transcript has total duration > 0.
C6_FallbackBeforeGenerateClips ==
    (pc = "generate_clips" /\ LastEnd > 0) => ai_analysis # <<>>

\* the refinement dropped every candidate of the answer and generate_clips
\* is entered with the empty list, the fallback generator not having run
AllDroppedReachesGenerateClips ==
    /\ pc = "generate_clips"
    /\ LastEnd > 0
    /\ settings.smart_duration
    /\ settings.max_clips >= 1
    /\ ai_analysis = <<>>
    /\ calls = <<"primary">>

(***************************************************************************)
(* BoundaryScorer: assess_boundary_quality                                 *)
(***************************************************************************)
\* longest transcript of these runs
MaxScoreSegs == 2

short_pause == 5
base_score == 5
marker_bonus == 3
long_pause_bonus == 2
short_pause_bonus == 1
max_score == 10
invalid_score == 0

\* the boundary types the callers pass, and one they do not
BoundaryTypes == {"start", "end", "middle"}

\* a plausible slip: a boundary without a pause loses a point
PauseBonusOrPenalty(gap) ==
    IF gap > long_pause THEN long_pause_bonus
    ELSE IF gap > short_pause THEN short_pause_bonus
    ELSE 0 - short_pause_bonus

\* if gap > 1.5: score += 2 / elif gap > 0.5: score += 1
PauseBonus(gap) ==
    IF gap > long_pause THEN long_pause_bonus
    ELSE IF gap > short_pause THEN short_pause_bonus
    ELSE 0

PauseReason(gap) ==
    IF gap > long_pause THEN "Natural pause"
    ELSE IF gap > short_pause THEN "Small pause"
    ELSE "Tidak ada pause"

\* the gap before segment i (i > 0) and after segment i (i not the last)
GapBefore(segment_idx) ==
    Segment(segment_idx).start - Segment(segment_idx - 1).end
GapAfter(segment_idx) ==
    Segment(segment_idx + 1).start - Segment(segment_idx).end

StartQuality(segment_idx) ==
    LET marker == IF HasStarter(Segment(segment_idx).text)
                  THEN marker_bonus ELSE 0
    IN IF segment_idx > 0
       THEN [score |-> Min2(max_score, base_score + marker
                                       + PauseBonus(GapBefore(segment_idx))),
             reason |-> PauseReason(GapBefore(segment_idx))]
       ELSE [score |-> Min2(max_score, base_score + marker),
             reason |-> "Start dari awal video"]

EndQuality(segment_idx) ==
    LET marker == IF HasEnder(Segment(segment_idx).text)
                  THEN marker_bonus ELSE 0
    IN IF segment_idx < Len(transcript) - 1
       THEN [score |-> Min2(max_score, base_score + marker
                                       + PauseBonus(GapAfter(segment_idx))),
             reason |-> PauseReason(GapAfter(segment_idx))]
       ELSE [score |-> Min2(max_score, base_score + marker),
             reason |-> "End di akhir video"]

assess_boundary_quality(segment_idx, boundary_type) ==
    IF segment_idx < 0 \/ segment_idx >= Len(transcript)
    THEN [score |-> invalid_score, reason |-> "Invalid segment index"]
    ELSE IF boundary_type = "start" THEN StartQuality(segment_idx)
    ELSE EndQuality(segment_idx)

CallAssessBoundaryQuality ==
    /\ pc = "call"
    /\ result' = assess_boundary_quality(arg.segment_idx, arg.boundary_type)
    /\ pc' = "done"
    /\ UNCHANGED <<transcript, settings, ai_analysis, arg, calls>>

InitScore ==
    /\ transcript \in TranscriptsOf(BoundaryTimes, RefineTexts, MaxScoreSegs)
    /\ settings = DefaultSettings
    /\ ai_analysis = <<>>
    /\ pc = "call"
    /\ arg \in [segment_idx : (0 - 1)..Len(transcript),
                boundary_type : BoundaryTypes]
    /\ result = NotFound
    /\ calls = <<>>

NextScore == CallAssessBoundaryQuality
SpecScore == InitScore /\ [][NextScore]_vars

ValidIndex(segment_idx) ==
    0 <= segment_idx /\ segment_idx < Len(transcript)

\* C8: the score of assess_boundary_quality lies in [0, 10], and is at
\* least 5 when the segment index is valid.
C8_ScoreRange ==
    pc = "done" =>
        /\ result.score \in 0..10
        /\ ValidIndex(arg.segment_idx) => result.score >= 5

\* C8 witness: a start marker after a pause of more than 1.5 s scores
\* 5 + 3 + 2 = 10, the upper end of the range.
C8_Witness ==
    /\ pc = "done"
    /\ ValidIndex(arg.segment_idx)
    /\ arg.boundary_type = "start"
    /\ arg.segment_idx > 0
    /\ HasStarter(Segment(arg.segment_idx).text)
    /\ GapBefore(arg.segment_idx) > long_pause
    /\ result.score = 10

\* an index out of range scores 0
InvalidIndexScored ==
    /\ pc = "done"
    /\ ~ValidIndex(arg.segment_idx)
    /\ result.score = 0

\* a valid index with neither marker nor pause scores the base 5
BaseScoreReached ==
    /\ pc = "done"
    /\ ValidIndex(arg.segment_idx)
    /\ arg.boundary_type = "middle"
    /\ result.score = 5

(***************************************************************************)
(* SubtitleFormatter: format_subtitle_text                                 *)
(*                                                                         *)
(* Texts are sequences of characters; the result is the lines joined by    *)
(* "\n".  The re.sub calls are written out by what they match.             *)
(***************************************************************************)
\* most tokens in an input text
MaxWords == 4

max_chars_per_line == 42
max_lines == 2
Ellipsis == <<".", ".", ".">>

Last(text) == text[Len(text)]
Front(text) == SubSeq(text, 1, Len(text) - 1)
From(text, i) == SubSeq(text, i, Len(text))

\* the number of leading characters of text that are c
RECURSIVE LeadingRun(_, _)
LeadingRun(text, c) ==
    IF text # <<>> /\ text[1] = c THEN 1 + LeadingRun(Tail(text), c) ELSE 0

\* the first index of c in text, 0 when there is none
FirstIndexOf(text, c) ==
    IF \E k \in DOMAIN text : text[k] = c
    THEN CHOOSE k \in DOMAIN text :
            text[k] = c /\ \A j \in 1..(k - 1) : text[j] # c
    ELSE 0

\* re.sub(r'^>>\s*', '', text)
RemoveLeadingArrows(text) ==
    IF StartsWith(text, <<">", ">">>) THEN LStrip(From(text, 3)) ELSE text

\* the first index where ">>" stands, 0 when there is none
FirstArrows(text) ==
    IF \E k \in 1..(Len(text) - 1) : text[k] = ">" /\ text[k + 1] = ">"
    THEN CHOOSE k \in 1..(Len(text) - 1) :
            /\ text[k] = ">" /\ text[k + 1] = ">"
            /\ \A j \in 1..(k - 1) : ~(text[j] = ">" /\ text[j + 1] = ">")
    ELSE 0

\* re.sub(r'\s*>>\s*', ' ', text)
RECURSIVE ReplaceArrows(_)
ReplaceArrows(text) ==
    LET q == FirstArrows(text)
    IN IF q = 0 THEN text
       ELSE RStrip(SubSeq(text, 1, q - 1)) \o <<" ">>
            \o ReplaceArrows(LStrip(From(text, q + 2)))

\* re.sub(r'^\s*[>]{n,}\s*', '', text) with n = least
RemoveLeadingArrowRun(text, least) ==
    LET run == LeadingRun(LStrip(text), ">")
    IN IF run >= least THEN LStrip(From(LStrip(text), run + 1)) ELSE text

\* re.sub(r'\s+', ' ', text)
\* by halves: a run of whitespace that spans the two halves leaves one
\* space, as every other run does
RECURSIVE NormalizeSpaces(_)
NormalizeSpaces(text) ==
    IF text = <<>> THEN <<>>
    ELSE IF Len(text) = 1
         THEN IF text[1] \in Whitespace THEN <<" ">> ELSE text
    ELSE LET half == Len(text) \div 2
             left == NormalizeSpaces(SubSeq(text, 1, half))
             right == NormalizeSpaces(SubSeq(text, half + 1, Len(text)))
         IN IF text[half] \in Whitespace /\ text[half + 1] \in Whitespace
            THEN left \o Tail(right)
            ELSE left \o right

\* re.sub(r'^[-_]\s*', '', text)
RemoveLeadingDash(text) ==
    IF text # <<>> /\ text[1] \in {"-", "_"} THEN LStrip(Tail(text)) ELSE text

\* re.sub(r'\s*[c]\s*$', '', text) for the characters c of chars
RemoveTrailingChar(text, chars) ==
    IF RStrip(text) # <<>> /\ Last(RStrip(text)) \in chars
    THEN RStrip(Front(RStrip(text)))
    ELSE text

\* re.sub(r'^\[.*?\]\s*', '', text)
RemoveLeadingBracket(text) ==
    IF text # <<>> /\ text[1] = "[" /\ FirstIndexOf(text, "]") # 0
    THEN LStrip(From(text, FirstIndexOf(text, "]") + 1))
    ELSE text

\* re.sub(r'\s*\[.*?\]\s*$', '', text): from the first "[" on, when the
\* text ends with "]"
RemoveTrailingBracket(text) ==
    LET t == RStrip(text)
        q == FirstIndexOf(t, "[")
    IN IF t # <<>> /\ Last(t) = "]" /\ q # 0
       THEN RStrip(SubSeq(t, 1, q - 1))
       ELSE text

\* re.sub(r'^\s*[>]\s*', '', text)
RemoveLeadingArrow(text) ==
    IF LStrip(text) # <<>> /\ LStrip(text)[1] = ">"
    THEN LStrip(Tail(LStrip(text)))
    ELSE text

\* the cleaning steps of format_subtitle_text, in the order of the code
CleanForFormat(text) ==
    LET t1 == Strip(text)
        t2 == RemoveLeadingArrows(t1)
        t3 == ReplaceArrows(t2)
        t4 == RemoveLeadingArrowRun(t3, 2)
        t5 == NormalizeSpaces(t4)
        t6 == RemoveLeadingDash(t5)
        t7 == RemoveTrailingChar(t6, {"-", "_"})
        t8 == RemoveLeadingBracket(t7)
        t9 == RemoveTrailingBracket(t8)
        t10 == RemoveLeadingArrow(t9)
        t11 == RemoveTrailingChar(t10, {">"})
        t12 == RemoveLeadingArrowRun(t11, 3)
    IN Strip(t12)

\* the first word of a text that does not start with whitespace
RECURSIVE FirstWord(_)
FirstWord(text) ==
    IF text = <<>> \/ text[1] \in Whitespace THEN <<>>
    ELSE <<text[1]>> \o FirstWord(Tail(text))

\* text.split()
RECURSIVE Split(_)
Split(text) ==
    IF LStrip(text) = <<>> THEN <<>>
    ELSE <<FirstWord(LStrip(text))>>
         \o Split(From(LStrip(text), Len(FirstWord(LStrip(text))) + 1))

\* the wrap loop from word i on; it breaks once limit lines are full
RECURSIVE WrapFrom(_, _, _, _, _)
WrapFrom(words, i, lines, current_line, limit) ==
    IF i > Len(words) THEN [lines |-> lines, current_line |-> current_line]
    ELSE LET word == words[i]
             test_line == IF current_line # <<>>
                          THEN current_line \o <<" ">> \o word
                          ELSE word
         IN IF Len(test_line) <= max_chars_per_line
            THEN WrapFrom(words, i + 1, lines, test_line, limit)
            ELSE IF current_line # <<>>
                 THEN IF Len(lines) + 1 >= limit
                      THEN [lines |-> Append(lines, current_line),
                            current_line |-> word]
                      ELSE WrapFrom(words, i + 1,
                                    Append(lines, current_line), word, limit)
                 ELSE WrapFrom(words, i + 1, lines, word, limit)

\* "Add remaining text to last line"
WithRemainder(wrapped, limit) ==
    IF wrapped.current_line # <<>> /\ Len(wrapped.lines) < limit
    THEN Append(wrapped.lines, wrapped.current_line)
    ELSE wrapped.lines

\* "Limit to max 2 lines": cut, and an ellipsis on a long last line
LimitLines(lines) ==
    IF Len(lines) > max_lines
    THEN IF Len(lines[max_lines]) > max_chars_per_line - 3
         THEN [SubSeq(lines, 1, max_lines) EXCEPT ![max_lines] =
                  SubSeq(lines[max_lines], 1, max_chars_per_line - 3)
                  \o Ellipsis]
         ELSE SubSeq(lines, 1, max_lines)
    ELSE lines

\* "\n".join(lines)
RECURSIVE JoinLines(_)
JoinLines(lines) ==
    IF lines = <<>> THEN <<>>
    ELSE IF Len(lines) = 1 THEN lines[1]
    ELSE lines[1] \o <<"\n">> \o JoinLines(Tail(lines))

format_subtitle_text(text) ==
    IF text = <<>> THEN <<>>
    ELSE LET cleaned == CleanForFormat(text)
             words == Split(cleaned)
         IN IF Len(cleaned) <= max_chars_per_line THEN cleaned
            ELSE JoinLines(LimitLines(WithRemainder(
                     WrapFrom(words, 1, <<>>, <<>>, max_lines), max_lines)))

\* the words and artefacts the input texts are made of
WordLong == Rep("a", 26)
WordShort == Rep("b", 9)
WordTooLong == Rep("c", 45)
FormatTokens ==
    {WordLong, WordShort, WordTooLong, <<>>, <<">", ">">>, <<">">>, <<"-">>,
     <<"[", "x", "]">>}

\* " ".join(tokens)
RECURSIVE JoinWords(_)
JoinWords(tokens) ==
    IF tokens = <<>> THEN <<>>
    ELSE IF Len(tokens) = 1 THEN tokens[1]
    ELSE LET half == Len(tokens) \div 2
         IN JoinWords(SubSeq(tokens, 1, half)) \o <<" ">>
            \o JoinWords(SubSeq(tokens, half + 1, Len(tokens)))

FormatInputs == { JoinWords(tokens) : tokens \in SeqsUpTo(FormatTokens, MaxWords) }

CallFormatSubtitleText ==
    /\ pc = "call"
    /\ result' = format_subtitle_text(arg)
    /\ pc' = "done"
    /\ UNCHANGED <<transcript, settings, ai_analysis, arg, calls>>

InitFormat ==
    /\ transcript = <<>>
    /\ settings = DefaultSettings
    /\ ai_analysis = <<>>
    /\ pc = "call"
    /\ arg \in FormatInputs
    /\ result = <<>>
    /\ calls = <<>>

NextFormat == CallFormatSubtitleText
SpecFormat == InitFormat /\ [][NextFormat]_vars

\* the lines of a formatted text
RECURSIVE SplitLines(_)
SplitLines(text) ==
    IF FirstIndexOf(text, "\n") = 0 THEN <<text>>
    ELSE <<SubSeq(text, 1, FirstIndexOf(text, "\n") - 1)>>
         \o SplitLines(From(text, FirstIndexOf(text, "\n") + 1))

\* the lines greedy wrapping at 42 characters needs when nothing stops it
GreedyLines(text) ==
    LET words == Split(CleanForFormat(text))
    IN WithRemainder(WrapFrom(words, 1, <<>>, <<>>, Len(words) + 1),
                     Len(words) + 1)

\* C10: when greedy wrapping of the cleaned text at 42 characters per line
\* needs more than 2 lines, format_subtitle_text returns exactly 2 lines
\* and the second line ends with "...".
C10_TwoLinesWithEllipsis ==
    (pc = "done" /\ Len(GreedyLines(arg)) > 2) =>
        /\ Len(SplitLines(result)) = 2
        /\ EndsWith(SplitLines(result)[2], Ellipsis)

\* the 90-character sentence comes back as its first two lines, the rest
\* of the text dropped without a mark
NinetyCharsCutSilently ==
    /\ pc = "done"
    /\ arg = JoinWords(<<WordLong, WordLong, WordLong, WordShort>>)
    /\ Len(arg) = 90
    /\ result = WordLong \o <<"\n">> \o WordLong

\* in every other respect the result is as described: at most 2 lines
AtMostTwoLines ==
    pc = "done" => Len(SplitLines(result)) <= max_lines

(***************************************************************************)
(* CaptionCueBuilder: generate_srt_for_clip, the selection of the          *)
(* segments of a clip and their cues, and clean_subtitle_text              *)
(***************************************************************************)
Digits == {"0", "1", "2", "3", "4", "5", "6", "7", "8", "9"}
Punctuation == {".", ",", "!", "?", ";", ":"}
Range(s) == { s[k] : k \in DOMAIN s }

\* the number of leading characters of text that are in chars
RECURSIVE LeadingRunIn(_, _)
LeadingRunIn(text, chars) ==
    IF text # <<>> /\ text[1] \in chars
    THEN 1 + LeadingRunIn(Tail(text), chars)
    ELSE 0

\* text.strip(chars)
RECURSIVE RStripChars(_, _)
RStripChars(text, chars) ==
    IF text # <<>> /\ Last(text) \in chars
    THEN RStripChars(Front(text), chars)
    ELSE text

StripChars(text, chars) ==
    RStripChars(From(text, LeadingRunIn(text, chars) + 1), chars)

\* re.sub(r'^\(.*?\)\s*', '', text) for the pair open, close
RemoveLeadingGroup(text, open, close) ==
    IF text # <<>> /\ text[1] = open /\ FirstIndexOf(text, close) # 0
    THEN LStrip(From(text, FirstIndexOf(text, close) + 1))
    ELSE text

\* re.sub(r'\s*\(.*?\)\s*$', '', text) for the pair open, close
RemoveTrailingGroup(text, open, close) ==
    LET t == RStrip(text)
        q == FirstIndexOf(t, open)
    IN IF t # <<>> /\ Last(t) = close /\ q # 0
       THEN RStrip(SubSeq(t, 1, q - 1))
       ELSE text

\* re.sub(r'^[A-Z][a-z]*:\s*', '', text)
RemoveSpeaker(text) ==
    LET run == IF text = <<>> THEN 0
               ELSE LeadingRunIn(Tail(text), Range(LowerCase))
    IN IF /\ text # <<>>
          /\ text[1] \in Range(UpperCase)
          /\ Len(text) >= run + 2
          /\ text[run + 2] = ":"
       THEN LStrip(From(text, run + 3))
       ELSE text

\* re.sub(r'^\d+:\d+\s*', '', text) with the separator sep
RemoveLeadingNumber(text, sep) ==
    LET whole == LeadingRunIn(text, Digits)
        rest == From(text, whole + 2)
        part == LeadingRunIn(rest, Digits)
    IN IF /\ whole >= 1
          /\ Len(text) >= whole + 1
          /\ text[whole + 1] = sep
          /\ part >= 1
       THEN LStrip(From(rest, part + 1))
       ELSE text

clean_subtitle_text(text) ==
    IF text = <<>> THEN <<>>
    ELSE
    LET t2 == RemoveLeadingArrows(text)
        t3 == ReplaceArrows(t2)
        t4 == RemoveLeadingArrowRun(t3, 2)
        t5 == NormalizeSpaces(t4)
        t6 == RemoveLeadingDash(t5)
        t7 == RemoveTrailingChar(t6, {"-", "_"})
        t8 == RemoveLeadingBracket(t7)
        t9 == RemoveTrailingBracket(t8)
        t10 == RemoveLeadingArrow(t9)
        t11 == RemoveTrailingChar(t10, {">"})
        t12 == RemoveLeadingArrowRun(t11, 3)
        t13 == RemoveLeadingGroup(t12, "(", ")")
        t14 == RemoveTrailingGroup(t13, "(", ")")
        t15 == RemoveLeadingGroup(t14, "{", "}")
        t16 == RemoveTrailingGroup(t15, "{", "}")
        t17 == RemoveSpeaker(t16)
        t18 == RemoveLeadingNumber(t17, ":")
        t19 == RemoveLeadingNumber(t18, ".")
    IN Strip(t19)

\* shortest span of a segment inside the clip that is kept: 0.3 s
min_visible == 3
min_text_len == 2
MeaninglessTexts ==
    {<<".", ".", ".">>, <<".", ".">>, <<".">>, <<",">>, <<"!">>, <<"?">>}

\* the segment as it shows inside the clip, times relative to clip start
Adjusted(segment, clip_start, clip_end) ==
    [start |-> Max2(0, segment.start - clip_start),
     end |-> Min2(clip_end - clip_start, segment.end - clip_start),
     text |-> clean_subtitle_text(StripChars(Strip(segment.text),
                                             Punctuation))]

\* a plausible slip: only the segments that lie inside the clip
InsideClip(segment, clip_start, clip_end) ==
    segment.start > clip_start /\ segment.end < clip_end

\* seg_start < clip_end and seg_end > clip_start
OverlapsClip(segment, clip_start, clip_end) ==
    segment.start < clip_end /\ segment.end > clip_start

\* the conditions under which generate_srt_for_clip keeps a segment
IsValidSegment(segment, clip_start, clip_end) ==
    LET a == Adjusted(segment, clip_start, clip_end)
    IN /\ OverlapsClip(segment, clip_start, clip_end)
       /\ ~(a.start >= a.end \/ a.end <= 0 \/ a.end - a.start < min_visible)
       /\ ~(a.text = <<>> \/ Len(a.text) < min_text_len
            \/ a.text \in MeaninglessTexts)

RECURSIVE ValidSegmentsFrom(_, _, _)
ValidSegmentsFrom(i, clip_start, clip_end) ==
    IF i >= Len(transcript) THEN <<>>
    ELSE (IF IsValidSegment(Segment(i), clip_start, clip_end)
          THEN <<Adjusted(Segment(i), clip_start, clip_end)>>
          ELSE <<>>)
         \o ValidSegmentsFrom(i + 1, clip_start, clip_end)

valid_segments(clip_start, clip_end) ==
    ValidSegmentsFrom(0, clip_start, clip_end)

\* the cues written for the clip with the animation off: timing from
\* process_subtitle_segments, text from format_subtitle_text
NormalCues(processed_segments) ==
    [k \in DOMAIN processed_segments |->
        [start |-> processed_segments[k].start,
         end |-> processed_segments[k].end,
         text |-> format_subtitle_text(processed_segments[k].text)]]

\* a plausible slip: every slice shows one more word than it should
TypewriterOneWordAhead(text, start_time, duration) ==
    LET words == Split(text)
        total_words == Len(words)
    IN [i \in 1..total_words |->
           [start |-> Fraction(start_time * total_words + (i - 1) * duration,
                               total_words),
            end |-> Fraction(start_time * total_words + i * duration,
                             total_words),
            text |-> JoinWords(SubSeq(words, 1, Min2(i + 1, total_words)))]]

\* a plausible slip: the slices are timed from the start of the clip, the
\* start of the cue forgotten
TypewriterFromZero(text, start_time, duration) ==
    LET words == Split(text)
        total_words == Len(words)
    IN [i \in 1..total_words |->
           [start |-> Fraction((i - 1) * duration, total_words),
            end |-> Fraction(i * duration, total_words),
            text |-> JoinWords(SubSeq(words, 1, i))]]

\* generate_typewriter_subtitle: slice i (Python's i - 1) runs from
\* start_time + (i - 1) * word_duration to start_time + i * word_duration,
\* word_duration = duration / total_words, written as fractions of a tick
\* over total_words; <<>> stands for None
generate_typewriter_subtitle(text, start_time, duration) ==
    LET words == Split(text)
        total_words == Len(words)
    IN IF words = <<>> THEN <<>>
       ELSE [i \in 1..total_words |->
               [start |-> Fraction(start_time * total_words
                                       + (i - 1) * duration, total_words),
                end |-> Fraction(start_time * total_words + i * duration,
                                 total_words),
                text |-> JoinWords(SubSeq(words, 1, i))]]

\* the cues written for one processed segment with the animation
\* "typewriter": its slices, or the segment itself when there are none
TypewriterCuesOf(segment) ==
    LET typewriter_segments ==
            generate_typewriter_subtitle(segment.text, segment.start,
                                         segment.end - segment.start)
    IN IF typewriter_segments # <<>>
       THEN [k \in DOMAIN typewriter_segments |->
               [start |-> typewriter_segments[k].start,
                end |-> typewriter_segments[k].end,
                text |-> format_subtitle_text(typewriter_segments[k].text)]]
       ELSE <<[start |-> Fraction(segment.start, 1),
               end |-> Fraction(segment.end, 1),
               text |-> format_subtitle_text(segment.text)]>>

RECURSIVE TypewriterCues(_)
TypewriterCues(processed_segments) ==
    IF processed_segments = <<>> THEN <<>>
    ELSE TypewriterCuesOf(Head(processed_segments))
         \o TypewriterCues(Tail(processed_segments))

\* ' '.join([seg['text'] for seg in segments]): self.transcript['text']
TranscriptText ==
    JoinWords([k \in DOMAIN transcript |-> transcript[k].text])

\* 2.5 s, in ticks
target_subtitle_duration == 25
min_words_per_subtitle == 3

\* the loop for i in range(0, len(words), words_per_subtitle), from i on;
\* times are counted in 1/len(words) of a tick
RECURSIVE FallbackChunksFrom(_, _, _, _)
FallbackChunksFrom(words, i, words_per_subtitle, clip_duration) ==
    IF i >= Len(words) THEN <<>>
    ELSE LET unit == Len(words)
             chunk_words ==
                 SubSeq(words, i + 1, Min2(i + words_per_subtitle, unit))
             start_time == i * clip_duration
             end0 == Min2((i + words_per_subtitle) * clip_duration,
                          clip_duration * unit)
             end_time ==
                 IF (end0 - start_time) < min_duration * unit
                 THEN Min2(start_time + min_duration * unit,
                           clip_duration * unit)
                 ELSE end0
         IN (IF end_time > start_time
             THEN <<[start |-> start_time, end |-> end_time,
                     text |-> clean_subtitle_text(JoinWords(chunk_words))]>>
             ELSE <<>>)
            \o FallbackChunksFrom(words, i + words_per_subtitle,
                                  words_per_subtitle, clip_duration)

\* a plausible slip: the fallback gives up whenever it is asked
FallbackGivesUp(clip_start, clip_end) == [path |-> "none", cues |-> <<>>]

\* generate_srt_fallback: the cues spread over the clip from the text of
\* the whole transcript, as fractions of a tick; path "none" stands for
\* the return value None (no file is written)
generate_srt_fallback(clip_start, clip_end) ==
    LET full_text == TranscriptText
        clip_duration == clip_end - clip_start
        words == Split(full_text)
        total_subtitles ==
            Max2(1, clip_duration \div target_subtitle_duration)
        words_per_subtitle ==
            Max2(min_words_per_subtitle, Len(words) \div total_subtitles)
        processed_segments ==
            process_subtitle_segments(
                FallbackChunksFrom(words, 0, words_per_subtitle,
                                   clip_duration), Len(words))
    IN IF full_text = <<>> \/ processed_segments = <<>>
       THEN [path |-> "none", cues |-> <<>>]
       ELSE [path |-> "fallback",
             cues |-> [k \in DOMAIN processed_segments |->
                 [start |-> Fraction(processed_segments[k].start, Len(words)),
                  end |-> Fraction(processed_segments[k].end, Len(words)),
                  text |-> format_subtitle_text(processed_segments[k].text)]]]

\* generate_srt_for_clip: the path taken and the cues of the SRT file.
\* The cues of the path "segments" are timed in ticks, those of the paths
\* "typewriter" and "fallback" in fractions of a tick.
generate_srt_for_clip(clip_start, clip_end) ==
    IF valid_segments(clip_start, clip_end) = <<>>
    THEN generate_srt_fallback(clip_start, clip_end)
    ELSE LET processed_segments ==
                 process_subtitle_segments(
                     valid_segments(clip_start, clip_end), 1)
         IN IF settings.caption_animation = "typewriter"
            THEN [path |-> "typewriter",
                  cues |-> TypewriterCues(processed_segments)]
            ELSE [path |-> "segments",
                  cues |-> NormalCues(processed_segments)]

\* the texts of the transcripts of these runs
TextJadi == <<"J", "a", "d", "i", " ", "b", "e", "g", "i", "n", "i", " ", "c", "e", "r", "i", "t", "a", "n", "y", "a", ".">>
TextSangat == <<"S", "a", "n", "g", "a", "t", " ", "m", "e", "n", "y", "e", "n", "t", "u", "h", ".">>
TextAkhir == <<"A", "k", "h", "i", "r", " ", "c", "e", "r", "i", "t", "a", ".">>
TextArtefact == <<" ", "[", "x", "]", " ">>
\* a speaker, a time stamp and bracketed remarks around the word "ya"
TextNoisy ==
    <<"(", "a", ")", " ", "A", "l", "i", ":", " ", "1", ":", "2", " ", "3", ".", "4", " ", "y", "a", " ", "{", "b", "}", ".">>
SrtTexts == {TextJadi, TextSangat, TextAkhir, TextArtefact, TextNoisy}

\* longest transcript of these runs
MaxSrtSegs == 3

\* the spans (start, end) of the segments, in ticks of 0.1 s
SrtSpans ==
    {<<0, 20>>, <<22, 50>>, <<70, 90>>, <<0, 22>>, <<20, 50>>, <<50, 70>>,
     <<20, 22>>}
SrtClips == {<<0, 90>>, <<0, 50>>, <<20, 90>>, <<21, 50>>}

SrtTranscripts ==
    { s \in SeqsUpTo({ [start |-> p[1], end |-> p[2], text |-> t] :
                          p \in SrtSpans, t \in SrtTexts }, MaxSrtSegs) :
        IsSortedByStart(s) }

CallGenerateSrtForClip ==
    /\ pc = "call"
    /\ result' = generate_srt_for_clip(arg.clip_start, arg.clip_end)
    /\ pc' = "done"
    /\ UNCHANGED <<transcript, settings, ai_analysis, arg, calls>>

InitSrt ==
    /\ transcript \in SrtTranscripts
    /\ settings = DefaultSettings
    /\ ai_analysis = <<>>
    /\ pc = "call"
    /\ arg \in { [clip_start |-> c[1], clip_end |-> c[2]] : c \in SrtClips }
    /\ result = <<>>
    /\ calls = <<>>

NextSrt == CallGenerateSrtForClip
SpecSrt == InitSrt /\ [][NextSrt]_vars

\* the transcript and the clip of the worked example
StoryTranscript ==
    <<[start |-> 0, end |-> 20, text |-> TextJadi],
      [start |-> 22, end |-> 50, text |-> TextSangat],
      [start |-> 70, end |-> 90, text |-> TextAkhir]>>
StoryClip == [clip_start |-> 0, clip_end |-> 90]

Timing(cue) == <<cue.start, cue.end>>

\* C11: for the segments (0,2), (2.2,5), (7,9) and the clip (0,9) the
\* selection and process_subtitle_segments give exactly 3 cues timed
\* (0,2), (2.2,5), (7,9): the 0.2 s gap between cues 1 and 2 is left as it
\* is and cue 3 is not adjusted.
C11_StoryCues ==
    (pc = "done" /\ transcript = StoryTranscript /\ arg = StoryClip) =>
        /\ result.path = "segments"
        /\ Len(result.cues) = 3
        /\ Timing(result.cues[1]) = <<0, 20>>
        /\ Timing(result.cues[2]) = <<22, 50>>
        /\ Timing(result.cues[3]) = <<70, 90>>

\* C11 witness: the cues of the worked example have been built
C11_Witness ==
    /\ pc = "done"
    /\ transcript = StoryTranscript
    /\ arg = StoryClip
    /\ Len(result.cues) = 3
    /\ result.cues[2].start - result.cues[1].end = min_gap

\* a segment reaching out of the clip is cut to the clip, a segment whose
\* text cleans to nothing is left out
ClippedAndSkippedReached ==
    /\ pc = "done"
    /\ Len(transcript) = 3
    /\ Len(result.cues) = 1
    /\ \E k \in DOMAIN transcript :
          /\ transcript[k].text # TextArtefact
          /\ transcript[k].start < arg.clip_start
          /\ transcript[k].end > arg.clip_start
    /\ result.cues[1].start = 0

\* the noisy text is shown as the word it carries
NoisyTextCleaned ==
    /\ pc = "done"
    /\ transcript # <<>>
    /\ transcript[1].text = TextNoisy
    /\ result.path = "segments"
    /\ result.cues[1].text = <<"y", "a">>

(***************************************************************************)
(* ClipBoundaryRefiner: find_better_start_boundary and                     *)
(* find_better_end_boundary on their own                                   *)
(***************************************************************************)
\* longest transcript of these runs, and the length of its segments
MaxLineSegs == 4
LineSegTicks == 20
\* the pauses between the segments: 0.2 s and 2 s
LineGaps == {2, 20}

\* transcripts of up to n segments that follow one another, the pause
\* before each drawn from gaps and its text from texts
RECURSIVE LineTranscriptsOf(_, _, _)
LineTranscriptsOf(n, gaps, texts) ==
    IF n = 0 THEN {<<>>}
    ELSE LET shorter == LineTranscriptsOf(n - 1, gaps, texts)
         IN shorter \cup
            { Append(s, [start |-> (IF s = <<>> THEN 0 ELSE Last(s).end) + g,
                         end |-> (IF s = <<>> THEN 0 ELSE Last(s).end) + g
                                 + LineSegTicks,
                         text |-> t]) :
                s \in { x \in shorter : Len(x) = n - 1 },
                g \in gaps, t \in texts }

LineTranscripts(n) == LineTranscriptsOf(n, LineGaps, RefineTexts)

\* the calls made for these transcripts: a valid index and a time of
\* that segment
BoundaryArgs ==
    UNION { { [segment_idx |-> i, original_time |-> t] :
                t \in {Segment(i).start, Segment(i).end - 1} } :
            i \in 0..(Len(transcript) - 1) }

CallFindBetterStartBoundary ==
    /\ pc = "call"
    /\ result' = [fn |-> "find_better_start_boundary",
                  value |-> find_better_start_boundary(arg.segment_idx,
                                                       arg.original_time)]
    /\ pc' = "done"
    /\ UNCHANGED <<transcript, settings, ai_analysis, arg, calls>>

CallFindBetterEndBoundary ==
    /\ pc = "call"
    /\ result' = [fn |-> "find_better_end_boundary",
                  value |-> find_better_end_boundary(arg.segment_idx,
                                                     arg.original_time)]
    /\ pc' = "done"
    /\ UNCHANGED <<transcript, settings, ai_analysis, arg, calls>>

InitBoundary ==
    /\ transcript \in LineTranscripts(MaxLineSegs) \cup {StoryTranscript}
    /\ settings = DefaultSettings
    /\ ai_analysis = <<>>
    /\ pc = "call"
    /\ arg \in BoundaryArgs
    /\ result = [fn |-> "", value |-> NotFound]
    /\ calls = <<>>

NextBoundary ==
    \/ CallFindBetterStartBoundary
    \/ CallFindBetterEndBoundary

SpecBoundary == InitBoundary /\ [][NextBoundary]_vars

StartDone == pc = "done" /\ result.fn = "find_better_start_boundary"
EndDone == pc = "done" /\ result.fn = "find_better_end_boundary"

\* the candidate of the worked example: 1.9 s to 6.8 s
StoryCandidate == [start_time |-> 19, end_time |-> 68]
StoryStart == StoryCandidate.start_time

\* C12: against the segments of the worked example, find_segment_index(1.9)
\* is 0, find_better_start_boundary for segment 0 returns 0, and
\* assess_boundary_quality(0, 'start') scores 8.
C12_StoryStartBoundary ==
    (/\ StartDone
     /\ transcript = StoryTranscript
     /\ arg = [segment_idx |-> find_segment_index(StoryStart),
               original_time |-> StoryStart]) =>
        /\ find_segment_index(StoryStart) = 0
        /\ result.value = 0
        /\ assess_boundary_quality(0, "start").score = 8

\* what the code does in the worked example: segment 0 is found and
\* scores 8, and the start stays at the original 1.9 s
StoryStartKeptOriginal ==
    (/\ StartDone
     /\ transcript = StoryTranscript
     /\ arg = [segment_idx |-> find_segment_index(StoryStart),
               original_time |-> StoryStart]) =>
        /\ find_segment_index(StoryStart) = 0
        /\ result.value = StoryStart
        /\ assess_boundary_quality(0, "start").score = 8

StoryStartReached ==
    /\ StartDone
    /\ transcript = StoryTranscript
    /\ arg = [segment_idx |-> 0, original_time |-> StoryStart]

\* the signals a boundary may be moved to: a marker in the text of the
\* segment, or a pause of more than 1.5 s next to it
StartSignal(i) ==
    \/ HasStarter(Segment(i).text)
    \/ i > 0 /\ Segment(i).start - Segment(i - 1).end > long_pause
EndSignal(i) ==
    \/ HasEnder(Segment(i).text)
    \/ i < Len(transcript) - 1
       /\ Segment(i + 1).start - Segment(i).end > long_pause

\* the windows of up to 3 segments: idx, idx-1, idx-2 down to segment 0,
\* and idx, idx+1, idx+2 up to the last segment
scan_window == 3
StartWindow(idx) == Max2(0, idx - (scan_window - 1))..idx
EndWindow(idx) == idx..Min2(Len(transcript) - 1, idx + (scan_window - 1))

\* the segments of the window that carry a signal
StartSignals(idx) == { i \in StartWindow(idx) : StartSignal(i) }
EndSignals(idx) == { i \in EndWindow(idx) : EndSignal(i) }

Largest(S) == CHOOSE x \in S : \A y \in S : y <= x
Smallest(S) == CHOOSE x \in S : \A y \in S : x <= y

\* C13: find_better_start_boundary(idx, t) scans idx, idx-1, idx-2, down
\* to segment 0 inclusive, and returns the start of the first scanned
\* segment that opens with a start marker or follows a pause of more than
\* 1.5 s, for every idx, idx = 0 included.
C13_StartScansWindowToZero ==
    (StartDone /\ StartSignals(arg.segment_idx) # {}) =>
        result.value = Segment(Largest(StartSignals(arg.segment_idx))).start

\* the same for the windows that do not reach segment 0, which the code
\* scans in full
StartScansWindowAboveZero ==
    (/\ StartDone
     /\ StartSignals(arg.segment_idx) # {}
     /\ arg.segment_idx >= scan_window) =>
        result.value = Segment(Largest(StartSignals(arg.segment_idx))).start

\* segment 0 carries the only signal of the window of segment 1 and the
\* start is left where it was
SegmentZeroNotScanned ==
    /\ StartDone
    /\ arg.segment_idx = 1
    /\ StartSignals(1) = {0}
    /\ arg.original_time # Segment(0).start
    /\ result.value = arg.original_time

\* C14: find_better_end_boundary(idx, t) scans idx, idx+1, idx+2, up to
\* the last segment inclusive, and returns the end of the first scanned
\* segment that closes with an end marker or precedes a pause of more than
\* 1.5 s, for every idx, the last segment included.
C14_EndScansWindowToLast ==
    (EndDone /\ EndSignals(arg.segment_idx) # {}) =>
        result.value = Segment(Smallest(EndSignals(arg.segment_idx))).end

\* the same for every segment but the last, which the code scans so
EndScansWindowBeforeLast ==
    (/\ EndDone
     /\ EndSignals(arg.segment_idx) # {}
     /\ arg.segment_idx < Len(transcript) - 1) =>
        result.value = Segment(Smallest(EndSignals(arg.segment_idx))).end

\* the last segment closes with an end marker and the end is left where
\* it was
LastSegmentNotScanned ==
    /\ EndDone
    /\ arg.segment_idx = Len(transcript) - 1
    /\ EndSignals(arg.segment_idx) # {}
    /\ arg.original_time # Segment(arg.segment_idx).end
    /\ result.value = arg.original_time

\* C15: with no signal in the scanned window find_better_start_boundary
\* and find_better_end_boundary return the original time; a boundary is
\* moved only to the start (the end) of a segment of the window that
\* carries a signal.
C15_ConservativePolicy ==
    /\ StartDone =>
          /\ StartSignals(arg.segment_idx) = {} =>
                result.value = arg.original_time
          /\ result.value # arg.original_time =>
                \E i \in StartSignals(arg.segment_idx) :
                    result.value = Segment(i).start
    /\ EndDone =>
          /\ EndSignals(arg.segment_idx) = {} =>
                result.value = arg.original_time
          /\ result.value # arg.original_time =>
                \E i \in EndSignals(arg.segment_idx) :
                    result.value = Segment(i).end

\* C15 witness: the window of segment 3 (segments 3, 2, 1) was scanned
\* to its end without a signal and the original time came back, a time
\* that is not the start of the segment.
C15_Witness ==
    /\ StartDone
    /\ arg.segment_idx = 3
    /\ StartSignals(3) = {}
    /\ arg.original_time # Segment(3).start
    /\ result.value = arg.original_time

\* a start moved two segments back, to a segment after a long pause
StartMovedBack ==
    /\ StartDone
    /\ arg.segment_idx = 3
    /\ StartSignals(3) = {1}
    /\ ~HasStarter(Segment(1).text)
    /\ result.value = Segment(1).start

\* an end moved two segments on, to a segment closing with a marker
EndMovedForward ==
    /\ EndDone
    /\ arg.segment_idx = 0
    /\ EndSignals(0) = {2}
    /\ result.value = Segment(2).end

(***************************************************************************)
(* ClipBoundaryRefiner: what a kept candidate records                      *)
(***************************************************************************)
\* the candidate a returned clip was made of: its title is its position
CandidateOf(clip) == arg[clip.title]

Moved(clip) ==
    \/ clip.start_time # clip.original_start
    \/ clip.end_time # clip.original_end

\* C16: every candidate kept by validate_and_improve_boundaries records
\* its input times as original_start and original_end, and
\* boundary_improved is true exactly when the refined start or the refined
\* end differs from the original one.
C16_BoundaryImprovedIffMoved ==
    (pc = "done" /\ ~result.raised) =>
        \A k \in DOMAIN result.value :
            /\ result.value[k].original_start
                   = CandidateOf(result.value[k]).start_time.val
            /\ result.value[k].original_end
                   = CandidateOf(result.value[k]).end_time.val
            /\ result.value[k].boundary_improved <=> Moved(result.value[k])

\* the part the code keeps: the input times are recorded
OriginalTimesRecorded ==
    (pc = "done" /\ ~result.raised) =>
        \A k \in DOMAIN result.value :
            /\ result.value[k].original_start
                   = CandidateOf(result.value[k]).start_time.val
            /\ result.value[k].original_end
                   = CandidateOf(result.value[k]).end_time.val

\* a clip whose two boundaries stayed where they were is marked improved
UnmovedMarkedImproved ==
    /\ pc = "done"
    /\ ~result.raised
    /\ \E k \in DOMAIN result.value :
          ~Moved(result.value[k]) /\ result.value[k].boundary_improved

\* a clip with a moved boundary is returned as well
MovedClipReturned ==
    /\ pc = "done"
    /\ ~result.raised
    /\ \E k \in DOMAIN result.value : Moved(result.value[k])

(***************************************************************************)
(* FallbackClipGenerator: the tiers                                        *)
(***************************************************************************)
NaturalTier == find_natural_break_clips(transcript, settings.max_clips)
AlignedTier ==
    find_fixed_duration_clips(transcript, settings.max_clips, TargetDuration)
NaiveTier ==
    create_simple_time_clips(TotalDuration(transcript), settings.max_clips,
                             TargetDuration)

AlignedTierWithoutNaturalTier ==
    /\ pc = "done"
    /\ ~settings.smart_duration
    /\ NaturalTier # <<>>
    /\ result = AlignedTier
    /\ result # NaturalTier

(***************************************************************************)
(* FallbackClipGenerator: find_natural_break_clips on its own              *)
(***************************************************************************)
\* longest transcript of these runs and the largest minimum clip
\* duration, in seconds
MaxNaturalSegs == 4
MaxMinClipSeconds == 3
\* the pauses between the segments: 0.2 s, 1.2 s and 2 s
NaturalGaps == {2, 12, 20}

NaturalSettings ==
    [smart_duration : {TRUE}, max_clips : 0..MaxClips, clip_duration : {60},
     min_clip_duration : 0..MaxMinClipSeconds]

CallFindNaturalBreakClips ==
    /\ pc = "call"
    /\ result' = find_natural_break_clips(transcript, settings.max_clips)
    /\ pc' = "done"
    /\ UNCHANGED <<transcript, settings, ai_analysis, arg, calls>>

InitNatural ==
    /\ transcript \in
          LineTranscriptsOf(MaxNaturalSegs, NaturalGaps, {TextPlain})
    /\ settings \in NaturalSettings
    /\ ai_analysis = <<>>
    /\ pc = "call"
    /\ arg = <<>>
    /\ result = <<>>
    /\ calls = <<>>

NextNatural == CallFindNaturalBreakClips
SpecNatural == InitNatural /\ [][NextNatural]_vars

\* the pause behind segment i, and the segments with a pause of more
\* than 1.0 s behind them
GapBehind(i) == Segment(i + 1).start - Segment(i).end
Breaks == { i \in 0..(Len(transcript) - 2) : GapBehind(i) > natural_break_pause }

\* the place of break i when the breaks are ordered by falling pause,
\* earlier breaks first among equal pauses, counted from 0
BreakRank(i) ==
    Cardinality({ j \in Breaks :
                    \/ GapBehind(j) > GapBehind(i)
                    \/ GapBehind(j) = GapBehind(i) /\ j < i })

MinClipTicks == settings.min_clip_duration * TicksPerSecond

\* the segments at or before break i whose start leaves the clip long
\* enough
QualifyingStarts(i) ==
    { j \in 0..i : Segment(i).end - Segment(j).start >= MinClipTicks }

\* clip is a clip for break i: it ends where segment i ends, starts at a
\* qualifying segment start, or at none_start when there is none, and
\* lasts the minimum duration
IsClipOfBreak(clip, i, none_start) ==
    /\ clip.end_time = Segment(i).end * settings.max_clips
    /\ IF QualifyingStarts(i) # {}
       THEN \E j \in QualifyingStarts(i) :
               clip.start_time = Segment(j).start * settings.max_clips
       ELSE clip.start_time = none_start * settings.max_clips
    /\ clip.end_time - clip.start_time >= MinClipTicks * settings.max_clips

\* the start the code takes when no segment start qualifies
ClampedTarget(i) == Max2(0, Segment(i).end - MinClipTicks)

\* C18, as the code has it: the natural-break tier considers only pauses
\* of more than 1.0 s, takes the max_clips largest, and gives for each a
\* clip that ends with the segment before the pause and starts at a
\* segment start with end - start >= min_clip_duration or, when no
\* segment start qualifies, at max(0, end - min_clip_duration); only clips
\* of at least min_clip_duration are returned, at most max_clips of them.
C18_NaturalBreakClips ==
    pc = "done" =>
        /\ Len(result) <= settings.max_clips
        /\ \A k \in DOMAIN result :
              \E i \in Breaks :
                  /\ BreakRank(i) < settings.max_clips
                  /\ IsClipOfBreak(result[k], i, ClampedTarget(i))
        /\ \A i \in Breaks :
              (/\ BreakRank(i) < settings.max_clips
               /\ \/ QualifyingStarts(i) # {}
                  \/ Segment(i).end - ClampedTarget(i) >= MinClipTicks) =>
                  \E k \in DOMAIN result :
                      IsClipOfBreak(result[k], i, ClampedTarget(i))

\* C18, as stated: the same with the start 0 when no segment start
\* qualifies.
C18_StartZeroWhenNoneQualifies ==
    pc = "done" =>
        /\ Len(result) <= settings.max_clips
        /\ \A k \in DOMAIN result :
              \E i \in Breaks :
                  /\ BreakRank(i) < settings.max_clips
                  /\ IsClipOfBreak(result[k], i, 0)

\* C18 witness: the transcript starts after 2 s and no segment start
\* leaves the clip 3 s long; the clip starts 3 s before its end, which is
\* neither a segment start nor 0.
C18_Witness ==
    /\ pc = "done"
    /\ Len(result) = 1
    /\ settings.max_clips = 1
    /\ \E i \in Breaks :
          /\ QualifyingStarts(i) = {}
          /\ ClampedTarget(i) > 0
          /\ result[1].start_time = ClampedTarget(i)
          /\ result[1].end_time = Segment(i).end

\* of two breaks the later has the longer pause and is the one taken
LongestPauseTaken ==
    /\ pc = "done"
    /\ settings.max_clips = 1
    /\ Cardinality(Breaks) = 2
    /\ Len(result) = 1
    /\ \E i \in Breaks :
          /\ BreakRank(i) = 0
          /\ \E j \in Breaks : j < i
          /\ result[1].end_time = Segment(i).end

\* a break whose clip would be too short gives no clip
ShortClipDiscarded ==
    /\ pc = "done"
    /\ settings.max_clips >= 1
    /\ Breaks # {}
    /\ result = <<>>

(***************************************************************************)
(* FallbackClipGenerator: the fixed-interval aligned tier                  *)
(*                                                                         *)
(* Clip times are in units of 1/max_clips tick, as in the result.          *)
(***************************************************************************)
\* interval i of the transcript: where it starts and where it ends
IntervalStart(i) == i * LastEnd
IntervalEnd(i) ==
    Min2(IntervalStart(i) + TargetDuration * settings.max_clips,
         LastEnd * settings.max_clips)

\* the segment starts (ends) at the least distance from a time
NearestStarts(time) ==
    { transcript[k].start * settings.max_clips : k \in
        { k \in DOMAIN transcript :
            \A j \in DOMAIN transcript :
                Abs(transcript[k].start * settings.max_clips - time)
                    <= Abs(transcript[j].start * settings.max_clips - time) } }
NearestEnds(time) ==
    { transcript[k].end * settings.max_clips : k \in
        { k \in DOMAIN transcript :
            \A j \in DOMAIN transcript :
                Abs(transcript[k].end * settings.max_clips - time)
                    <= Abs(transcript[j].end * settings.max_clips - time) } }

IsAlignedClip(clip, i) ==
    /\ clip.start_time \in NearestStarts(IntervalStart(i))
    /\ clip.end_time \in NearestEnds(IntervalEnd(i))
    /\ clip.end_time > clip.start_time

AlignedTierDone ==
    /\ pc = "done"
    /\ ~settings.smart_duration
    /\ settings.max_clips >= 1
    /\ LastEnd > 0

\* C19: every clip of the fixed-interval aligned tier starts at the start
\* of the segment whose start is nearest to the interval start, ends at
\* the end of the segment whose end is nearest to the interval end, and
\* has end > start; an interval that snaps to end <= start gives no clip,
\* and at most max_clips clips are returned.
C19_AlignedClips ==
    AlignedTierDone =>
        /\ Len(result) <= settings.max_clips
        /\ \A k \in DOMAIN result :
              /\ result[k].boundary_confidence = "medium"
              /\ \E i \in 0..(settings.max_clips - 1) :
                    IsAlignedClip(result[k], i)
        /\ \A i \in 0..(settings.max_clips - 1) :
              IF \A v \in NearestStarts(IntervalStart(i)),
                    w \in NearestEnds(IntervalEnd(i)) : w > v
              THEN \E k \in DOMAIN result : IsAlignedClip(result[k], i)
              ELSE (\A v \in NearestStarts(IntervalStart(i)),
                       w \in NearestEnds(IntervalEnd(i)) : w <= v) =>
                      Len(result) < settings.max_clips

\* C19 witness: three intervals, the start of the second snapped to a
\* segment start away from it, the third snapped to end <= start and
\* left out.
C19_Witness ==
    /\ AlignedTierDone
    /\ settings.max_clips = 3
    /\ Len(result) = 2
    /\ IsAlignedClip(result[2], 1)
    /\ result[2].start_time # IntervalStart(1)
    /\ \A v \in NearestStarts(IntervalStart(2)),
          w \in NearestEnds(IntervalEnd(2)) : w <= v

(***************************************************************************)
(* ContentCompletenessScorer: assess_content_completeness                  *)
(*                                                                         *)
(* A score is the fraction num / den, den > 0.                             *)
(***************************************************************************)
\* longest transcript of these runs
MaxCompleteSegs == 3

SentenceEnds == {".", "!", "?", ":", ";"}

\* text.strip().endswith(('.', '!', '?', ':', ';'))
IsCompleteSentence(text) ==
    Strip(text) # <<>> /\ Last(Strip(text)) \in SentenceEnds

\* the loop for i in range(start_idx, end_idx + 1), from i on
RECURSIVE CompleteSentencesFrom(_, _)
CompleteSentencesFrom(i, end_idx) ==
    IF i > end_idx THEN 0
    ELSE (IF i < Len(transcript) /\ IsCompleteSentence(Segment(i).text)
          THEN 1 ELSE 0)
         + CompleteSentencesFrom(i + 1, end_idx)

\* min(10, completeness_ratio * 10)
CappedAtTen(score) ==
    IF score.num > 10 * score.den THEN Fraction(10, 1) ELSE score

assess_content_completeness(start_idx, end_idx) ==
    IF start_idx >= end_idx THEN Fraction(0, 1)
    ELSE LET complete_sentences == CompleteSentencesFrom(start_idx, end_idx)
             total_segments == end_idx - start_idx + 1
         IN IF total_segments > 0
            THEN CappedAtTen(Fraction(complete_sentences * 10,
                                      total_segments))
            ELSE Fraction(0, 1)

CallAssessContentCompleteness ==
    /\ pc = "call"
    /\ result' = assess_content_completeness(arg.start_idx, arg.end_idx)
    /\ pc' = "done"
    /\ UNCHANGED <<transcript, settings, ai_analysis, arg, calls>>

InitComplete ==
    /\ transcript \in LineTranscriptsOf(MaxCompleteSegs, {2}, RefineTexts)
    /\ settings = DefaultSettings
    /\ ai_analysis = <<>>
    /\ pc = "call"
    /\ arg \in [start_idx : 0..Len(transcript), end_idx : 0..Len(transcript)]
    /\ result = Fraction(0, 1)
    /\ calls = <<>>

NextComplete == CallAssessContentCompleteness
SpecComplete == InitComplete /\ [][NextComplete]_vars

\* the segments of the span whose trimmed text ends a sentence
CompleteInSpan(start_idx, end_idx) ==
    { i \in start_idx..end_idx :
        /\ i < Len(transcript)
        /\ \E c \in SentenceEnds : EndsWith(Strip(Segment(i).text), <<c>>) }

\* num / den = 10 * n / total, at most 10
IsTenTimesRatio(score, n, total) ==
    IF n > total THEN score.num = 10 * score.den
    ELSE score.num * total = 10 * n * score.den

\* C20: assess_content_completeness(startIdx, endIdx) returns 10 x (the
\* segments of the span that end in . ! ? : ;) / (endIdx - startIdx + 1),
\* capped at 10, for every startIdx <= endIdx, a single-segment span
\* included, and returns 0 only when startIdx > endIdx or no segment of
\* the span ends a sentence.
C20_CompletenessRatio ==
    pc = "done" =>
        /\ arg.start_idx <= arg.end_idx =>
              IsTenTimesRatio(result,
                  Cardinality(CompleteInSpan(arg.start_idx, arg.end_idx)),
                  arg.end_idx - arg.start_idx + 1)
        /\ result.num = 0 =>
              \/ arg.start_idx > arg.end_idx
              \/ CompleteInSpan(arg.start_idx, arg.end_idx) = {}

\* what the code does: the ratio for startIdx < endIdx, and 0 otherwise
RatioForLongerSpans ==
    pc = "done" =>
        IF arg.start_idx < arg.end_idx
        THEN IsTenTimesRatio(result,
                 Cardinality(CompleteInSpan(arg.start_idx, arg.end_idx)),
                 arg.end_idx - arg.start_idx + 1)
        ELSE result.num = 0

\* a span of one segment that ends a sentence scores 0
SingleSegmentScoresZero ==
    /\ pc = "done"
    /\ arg.start_idx = arg.end_idx
    /\ CompleteInSpan(arg.start_idx, arg.end_idx) # {}
    /\ result.num = 0

\* two of three segments end a sentence: 20 / 3
TwoThirdsReached ==
    /\ pc = "done"
    /\ arg.start_idx = 0
    /\ arg.end_idx = 2
    /\ Cardinality(CompleteInSpan(0, 2)) = 2
    /\ result = Fraction(20, 3)


(***************************************************************************)
(* Progressive ("typewriter") captions: generate_typewriter_subtitle and   *)
(* the cues generate_srt_for_clip writes from it for one packed cue        *)
(***************************************************************************)
\* most tokens in a text of these runs
MaxTypeWords == 3

\* the tokens the texts are joined from; the empty token gives leading,
\* trailing and doubled blanks
TypeTokens == {<<"a">>, <<"b", "b">>, <<>>}
TypeTexts == { JoinWords(tokens) : tokens \in SeqsUpTo(TypeTokens, MaxTypeWords) }
\* the start and the duration of the packed cue, in ticks
TypeStarts == {0, 5, 22}
TypeDurations == {1, 8, 9, 30}

\* the loop body of generate_srt_for_clip for the packed cue arg: the
\* slices generate_typewriter_subtitle returns and the cues written
CallGenerateTypewriterSubtitle ==
    /\ pc = "call"
    /\ result' =
          [segments |-> generate_typewriter_subtitle(arg.text, arg.start,
                                                     arg.end - arg.start),
           cues |-> TypewriterCuesOf(arg)]
    /\ pc' = "done"
    /\ UNCHANGED <<transcript, settings, ai_analysis, arg, calls>>

InitTypewriter ==
    /\ transcript = <<>>
    /\ settings = [DefaultSettings EXCEPT !.caption_animation = "typewriter"]
    /\ ai_analysis = <<>>
    /\ pc = "call"
    /\ arg \in { [text |-> t, start |-> s, end |-> s + d] :
                    t \in TypeTexts, s \in TypeStarts, d \in TypeDurations }
    /\ result = [segments |-> <<>>, cues |-> <<>>]
    /\ calls = <<>>

NextTypewriter == CallGenerateTypewriterSubtitle
SpecTypewriter == InitTypewriter /\ [][NextTypewriter]_vars

\* comparison and difference of two fractions
FracEq(a, b) == a.num * b.den = b.num * a.den
FracLE(a, b) == a.num * b.den <= b.num * a.den
FracLess(a, b) == a.num * b.den < b.num * a.den
FracMinus(a, b) == Fraction(a.num * b.den - b.num * a.den, a.den * b.den)
FracPlus(a, b) == Fraction(a.num * b.den + b.num * a.den, a.den * b.den)

\* C22: for a cue of N >= 1 words generate_typewriter_subtitle returns N
\* slices in order; slice k lasts d/N, starts where slice k - 1 ends (the
\* first at s, so slice k spans [s + (k-1)d/N, s + kd/N] and the last ends
\* at s + d) and shows the first k words.  For a text without words it
\* returns nothing and the cue is written as it is.
C22_TypewriterSlices ==
    pc = "done" =>
        LET words == Split(arg.text)
            N == Len(words)
            d == arg.end - arg.start
            segs == result.segments
        IN IF N >= 1
           THEN /\ Len(segs) = N
                /\ FracEq(segs[1].start, Fraction(arg.start, 1))
                /\ FracEq(segs[N].end, Fraction(arg.end, 1))
                /\ \A k \in 1..N :
                      /\ FracEq(FracMinus(segs[k].end, segs[k].start),
                                Fraction(d, N))
                      /\ FracEq(segs[k].start,
                                Fraction(arg.start * N + (k - 1) * d, N))
                      /\ Split(segs[k].text) = SubSeq(words, 1, k)
                /\ \A k \in 1..(N - 1) : FracEq(segs[k].end, segs[k + 1].start)
                /\ Split(segs[N].text) = Split(arg.text)
                /\ Len(result.cues) = N
           ELSE /\ segs = <<>>
                /\ Len(result.cues) = 1
                /\ FracEq(result.cues[1].start, Fraction(arg.start, 1))
                /\ FracEq(result.cues[1].end, Fraction(arg.end, 1))
                /\ result.cues[1].text = format_subtitle_text(arg.text)

\* C22 witness: a cue of three words over a duration that three does not
\* divide has been sliced
C22_Witness ==
    /\ pc = "done"
    /\ Len(Split(arg.text)) = 3
    /\ (arg.end - arg.start) % 3 # 0
    /\ Len(result.segments) = 3
    /\ FracLess(result.segments[1].end, result.segments[2].end)
    /\ Split(result.segments[2].text) = SubSeq(Split(arg.text), 1, 2)

\* a text of blanks only is written as one cue
WordlessTextWritten ==
    /\ pc = "done"
    /\ arg.text # <<>>
    /\ Split(arg.text) = <<>>
    /\ result.segments = <<>>
    /\ Len(result.cues) = 1

(***************************************************************************)
(* generate_srt_for_clip with the animation off and on, and with clips     *)
(* that no segment fills                                                   *)
(***************************************************************************)
\* longest transcript of these runs
MaxCaptionSegs == 2

\* the texts of the segments: three words, two words, an artefact that is
\* cleaned away when the clip is cut, and the empty text parse_subtitle_file
\* stores for a subtitle that is an artefact only
CaptionTexts == {TextJadi, TextAkhir, TextArtefact, <<>>}
\* the spans of the segments: apart, too close, overlapping, and ending
\* with the clip
CaptionSpans ==
    {<<0, 20>>, <<21, 50>>, <<10, 40>>, <<40, 85>>, <<85, 90>>, <<86, 95>>}
\* the clips: the last two are met by no segment
CaptionClips == {<<0, 90>>, <<20, 90>>, <<100, 130>>, <<100, 160>>}

CaptionTranscripts ==
    { s \in SeqsUpTo({ [start |-> p[1], end |-> p[2], text |-> t] :
                          p \in CaptionSpans, t \in CaptionTexts },
                     MaxCaptionSegs) :
        IsSortedByStart(s) }

InitCaption ==
    /\ transcript \in CaptionTranscripts
    /\ settings \in { [DefaultSettings EXCEPT !.caption_animation = a] :
                         a \in {"none", "typewriter"} }
    /\ ai_analysis = <<>>
    /\ pc = "call"
    /\ arg \in { [clip_start |-> c[1], clip_end |-> c[2]] :
                    c \in CaptionClips }
    /\ result = <<>>
    /\ calls = <<>>

NextCaption == CallGenerateSrtForClip
SpecCaption == InitCaption /\ [][NextCaption]_vars

TypewriterDone == pc = "done" /\ result.path = "typewriter"

\* the number of words a written cue shows
WordsShown(cue) == Len(Split(cue.text))

C23_LinesWithinLimits ==
    pc = "done" =>
        /\ Len(SplitLines(result)) <= max_lines
        /\ \A k \in DOMAIN SplitLines(result) :
              Len(SplitLines(result)[k]) <= max_chars_per_line

\* a word of 45 characters comes back as one line of 45 characters
LongWordKeptWhole ==
    /\ pc = "done"
    /\ arg = WordTooLong
    /\ result = WordTooLong

\* the lines are within the limit whenever every word of the text is
LinesWithinLimitsForShortWords ==
    (pc = "done" /\ \A k \in DOMAIN Split(arg) :
                       Len(Split(arg)[k]) <= max_chars_per_line) =>
        \A k \in DOMAIN SplitLines(result) :
            Len(SplitLines(result)[k]) <= max_chars_per_line

(***************************************************************************)
(* process_subtitle_segments: what it does to a cue and what it leaves     *)
(***************************************************************************)
\* the segment of the input list a returned cue was made from: the texts
\* of the input lists tell the segments apart
SegmentsOf(cue) == { j \in DOMAIN arg : arg[j].text = cue.text }

\* C24: every cue returned by process_subtitle_segments has start < end
\* and, the inputs starting at 0 or later, start >= 0; a cue is never
\* returned with its start pushed to or past its end.
C24_PositiveDuration ==
    PackDone =>
        \A k \in DOMAIN result :
            /\ result[k].start < result[k].end
            /\ result[k].start >= 0
            /\ \A j \in SegmentsOf(result[k]) :
                  result[k].start > arg[j].start =>
                      /\ k > 1
                      /\ result[k].start = result[k - 1].end + min_gap

\* C24 witness: of three segments one was dropped because the push would
\* have passed its end, and one was returned with its start pushed
C24_Witness ==
    /\ PackDone
    /\ Len(arg) = 3
    /\ Len(result) = 2
    /\ \E j \in DOMAIN arg :
          /\ arg[j].text = result[2].text
          /\ result[2].start > arg[j].start
          /\ result[2].start = result[1].end + min_gap
    /\ \E j \in DOMAIN arg :
          /\ \A k \in DOMAIN result : result[k].text # arg[j].text
          /\ arg[j].start >= result[1].start

(***************************************************************************)
(* generate_srt_for_clip: clips that no segment fills                      *)
(***************************************************************************)
\* no segment of the transcript is kept for the clip
NoSegmentKept == valid_segments(arg.clip_start, arg.clip_end) = <<>>

\* the words spoken in the clip: those of the segments that overlap it
ClipWords ==
    UNION { Range(Split(transcript[k].text)) :
              k \in { j \in DOMAIN transcript :
                        OverlapsClip(transcript[j], arg.clip_start,
                                     arg.clip_end) } }

\* the words the written cues show
WordsWritten == UNION { Range(Split(result.cues[k].text)) : k \in DOMAIN result.cues }

\* C25: when no segment overlaps the clip, or every overlapping segment is
\* discarded, generate_srt_for_clip takes the fallback and writes a cue
\* list that is not empty and is made of the clip's text.
C25_FallbackCuesFromClipText ==
    (pc = "done" /\ NoSegmentKept) =>
        /\ result.path = "fallback"
        /\ result.cues # <<>>
        /\ WordsWritten \subseteq ClipWords

\* a clip in which nothing is said is captioned with what is said before it
TextFromOutsideClipWritten ==
    /\ pc = "done"
    /\ NoSegmentKept
    /\ ClipWords = {}
    /\ result.path = "fallback"
    /\ WordsWritten # {}

\* a transcript without a word gives no cue list at all
NoCuesForWordlessTranscript ==
    /\ pc = "done"
    /\ transcript # <<>>
    /\ Split(TranscriptText) = <<>>
    /\ result.path = "none"

\* what the fallback does: it writes cues exactly when the transcript has
\* a word, from the words of the whole transcript, at least min_gap apart
\* and in at most max_lines lines
FallbackFromWholeTranscript ==
    (pc = "done" /\ NoSegmentKept) =>
        IF Split(TranscriptText) = <<>>
        THEN result.path = "none" /\ result.cues = <<>>
        ELSE /\ result.path = "fallback"
             /\ result.cues # <<>>
             /\ WordsWritten \subseteq Range(Split(TranscriptText))
             /\ \A k \in 1..(Len(result.cues) - 1) :
                   FracLE(FracPlus(result.cues[k].end, Fraction(min_gap, 1)),
                          result.cues[k + 1].start)
             /\ \A k \in DOMAIN result.cues :
                   Len(SplitLines(result.cues[k].text)) <= max_lines

\* the fallback has spread the text over two cues
TwoFallbackCuesWritten ==
    /\ pc = "done"
    /\ result.path = "fallback"
    /\ Len(result.cues) = 2

(***************************************************************************)
(* ClipBoundaryRefiner: the direction a boundary moves                     *)
(***************************************************************************)
\* C26: for a transcript sorted by start, whose segments may overlap,
\* validate_and_improve_boundaries never shrinks a window: every kept
\* candidate has refined start <= original start and refined end >=
\* original end, so that a candidate with start < end keeps start < end.
C26_NeverShrinks ==
    (pc = "done" /\ ~result.raised) =>
        \A k \in DOMAIN result.value :
            /\ result.value[k].start_time <= result.value[k].original_start
            /\ result.value[k].end_time >= result.value[k].original_end
            /\ result.value[k].original_start < result.value[k].original_end
                  => result.value[k].start_time < result.value[k].end_time

\* the part the code keeps: the start never moves forward
StartNeverMovesForward ==
    (pc = "done" /\ ~result.raised) =>
        \A k \in DOMAIN result.value :
            result.value[k].start_time <= result.value[k].original_start

\* a segment lying inside a longer one pulls the end in front of the start
EndPulledBeforeStart ==
    /\ pc = "done"
    /\ ~result.raised
    /\ \E k \in DOMAIN result.value :
          /\ result.value[k].original_start < result.value[k].original_end
          /\ result.value[k].end_time < result.value[k].start_time

(***************************************************************************)
(* generate_srt_for_clip: the cues and the ends of the clip                *)
(***************************************************************************)
\* a time of a written cue as a fraction of a tick, whatever the path
AsFraction(t) == IF result.path = "segments" THEN Fraction(t, 1) ELSE t

SegmentsWritten ==
    pc = "done" /\ result.path \in {"segments", "typewriter"}

\* C27: every cue written from the segments of a clip lies inside the
\* clip: 0 <= start and end <= clip_end - clip_start; the minimum duration
\* never carries the end of a cue past the end of the clip.
C27_CuesInsideClip ==
    SegmentsWritten =>
        \A k \in DOMAIN result.cues :
            /\ FracLE(Fraction(0, 1), AsFraction(result.cues[k].start))
            /\ FracLE(AsFraction(result.cues[k].end),
                      Fraction(arg.clip_end - arg.clip_start, 1))

\* the part the code keeps: no cue starts before the clip
CuesStartInsideClip ==
    SegmentsWritten =>
        \A k \in DOMAIN result.cues :
            FracLE(Fraction(0, 1), AsFraction(result.cues[k].start))

\* a segment of half a second at the end of the clip is shown for 0.8 s
CueOutlastsClip ==
    /\ pc = "done"
    /\ result.path = "segments"
    /\ Len(transcript) = 1
    /\ transcript[1].end = arg.clip_end
    /\ result.cues[1].end = arg.clip_end - arg.clip_start + 3

(***************************************************************************)
(* process_subtitle_segments: the frame                                    *)
(***************************************************************************)
\* C28: process_subtitle_segments only adjusts timing: it returns no more
\* cues than it was given segments; every cue carries the text of exactly
\* one segment of the input, no segment gives two cues, the cue starts no
\* earlier than its segment; the cues ascend by start; the list handed over
\* is as it was.
C28_OnlyTimingAdjusted ==
    PackDone =>
        /\ Len(result) <= Len(arg)
        /\ \A k \in DOMAIN result :
              /\ Cardinality(SegmentsOf(result[k])) = 1
              /\ \A j \in SegmentsOf(result[k]) :
                    result[k].start >= arg[j].start
        /\ \A k, l \in DOMAIN result :
              k # l => result[k].text # result[l].text
        /\ \A k \in 1..(Len(result) - 1) :
              result[k].start <= result[k + 1].start
        /\ calls[Len(calls)].in = arg

\* C28 witness: a list handed over out of order came back in order, one
\* segment left out, one cue with a later start and an earlier end than
\* its segment
C28_Witness ==
    /\ PackDone
    /\ Len(arg) = 3
    /\ ~IsSortedByStart(arg)
    /\ Len(result) = 2
    /\ result[1].text = arg[3].text
    /\ \E j \in DOMAIN arg :
          /\ arg[j].text = result[2].text
          /\ result[2].start > arg[j].start
    /\ \E j \in DOMAIN arg :
          /\ arg[j].text = result[1].text
          /\ result[1].end < arg[j].end

(***************************************************************************)
(* analyze_with_gemini: the order of the attempts                          *)
(***************************************************************************)
\* the logs of steps a run may show
OrderedLogs ==
    {<<>>, <<"primary">>, <<"primary", "generate_clips">>,
     <<"primary", "secondary">>,
     <<"primary", "secondary", "generate_clips">>,
     <<"primary", "secondary", "fallback">>,
     <<"primary", "secondary", "fallback", "generate_clips">>}

\* what an attempt that got the JSON array arg leaves in self.ai_analysis
AttemptResult ==
    IF settings.smart_duration
    THEN validate_and_improve_boundaries(arg).value
    ELSE arg

\* the attempt that ran last
LastAttempt ==
    IF calls # <<>> /\ calls[Len(calls)] = "generate_clips"
    THEN calls[Len(calls) - 1]
    ELSE IF calls = <<>> THEN "none" ELSE calls[Len(calls)]

\* C29: the attempts of analyze_with_gemini are strictly ordered.  The
\* alternative model is asked only after the attempt with the selected
\* model, generate_fallback_clips runs only after both, and the error
\* "Gemini analysis gagal" is raised only when generate_fallback_clips
\* returned no clip as well.  Once an attempt has succeeded,
\* self.ai_analysis holds its result and no later attempt runs.
C29_AttemptsInOrder ==
    /\ calls \in OrderedLogs
    /\ pc = "secondary" => calls = <<"primary">>
    /\ pc = "fallback" => calls = <<"primary", "secondary">>
    /\ (pc = "failed" /\ result = AnalysisFailedError) =>
          /\ calls = <<"primary", "secondary", "fallback">>
          /\ generate_fallback_clips = <<>>
          /\ ai_analysis = <<>>
    /\ pc \in {"generate_clips", "done"} =>
          ai_analysis =
              IF LastAttempt = "fallback" THEN generate_fallback_clips
              ELSE AttemptResult

\* C29 witness: the selected model's answer broke the refinement, the
\* alternative model answered, and its refined list is the analysis
C29_Witness ==
    /\ pc = "generate_clips"
    /\ calls = <<"primary", "secondary">>
    /\ settings.smart_duration
    /\ arg # <<>>
    /\ ai_analysis # <<>>
    /\ ai_analysis = validate_and_improve_boundaries(arg).value

\* the error of analyze_with_gemini is raised in some run
AnalysisFailedReached ==
    /\ pc = "failed"
    /\ result = AnalysisFailedError
    /\ transcript # <<>>

\* the fallback strategy's clips become the analysis in some run
FallbackAnalysisReached ==
    /\ pc = "done"
    /\ calls = <<"primary", "secondary", "fallback", "generate_clips">>
    /\ ai_analysis = generate_fallback_clips

(***************************************************************************)
(* FallbackClipGenerator: clips with the same window                       *)
(***************************************************************************)
Window(clip) == <<clip.start_time, clip.end_time>>

NoTwoClipsAlike ==
    \A k, l \in DOMAIN result : k # l => Window(result[k]) # Window(result[l])

\* C30: for a transcript of total duration > 0 and max_clips >= 1 no list
\* returned by generate_fallback_clips holds two clips with the same
\* (start_time, end_time), whichever tier made the list.
C30_NoDuplicateWindows ==
    (pc = "done" /\ LastEnd > 0 /\ settings.max_clips >= 1) => NoTwoClipsAlike

\* the natural-break tier and the naive split return no window twice
OtherTiersWithoutDuplicates ==
    (pc = "done" /\ LastEnd > 0 /\ settings.max_clips >= 1
        /\ result # <<>> /\ result[1].boundary_confidence # "medium") =>
        NoTwoClipsAlike

\* the aligned tier snaps two intervals to the one segment there is
SameSegmentTwice ==
    /\ pc = "done"
    /\ Len(transcript) = 1
    /\ settings.max_clips = 2
    /\ Len(result) = 2
    /\ result[1].boundary_confidence = "medium"
    /\ Window(result[1]) = Window(result[2])

=============================================================================
